---- MODULE Spec2Model ----
(***************************************************************************)
(* A state-machine model of the Sandy Viper bot: the position ledger       *)
(* (lot_manager.py), the decision cycle (strategy_expiry.py), the order    *)
(* queue (kite_api.place_market / flush_queue) and the watchdog            *)
(* (watchdog.py).                                                          *)
(***************************************************************************)
EXTENDS Integers, Sequences, FiniteSets, TLC

(***************************************************************************)
(* Bounds of the model.                                                    *)
(***************************************************************************)
MaxClock == 1
MaxCloses == 2
MaxAdds == 2
MaxThreads == 2
MaxAlerts == 2

Symbols == {"NIFTY", "BANKNIFTY"}
LedgerSymbols == {"NIFTY"}
EntryPrices == {18500}
ExitPrices == {18400, 18600}
Quantities == {50}
OrderTypes == {"BUY", "buy", "SELL"}
Closers == {1, 2}
Cycles == {1, 2}
Times == {540, 570, 840, 915}
Slopes == {0, 2}
\* snap.fut_ltp in hundredths of a point (18487.00)
FutPrices == {1848700}
Lots == {1, 2}
Services == {"watchdog", "refresher"}
Threads == 1..MaxThreads
Callbacks == <<1, 2>>
CpuReadings == {50, 80, 85}

VARIABLES
    open_positions,   \* LotManager.open_positions: position id -> position
    daily_pnl,        \* LotManager.daily_pnl
    now,              \* wall clock in whole seconds (datetime.now())
    closer,           \* per thread: the frame of a remove_position call
    closed,           \* the last two completed remove_position calls
    nCloses,          \* remove_position calls started so far
    nAdds,            \* add_position calls so far
    entry_policy,     \* config.ENTRY_POLICY: product and order type
    trade_count,      \* accepted entries per instrument (register_entry)
    global_exposure,  \* accepted exposure, all instruments (register_entry)
    session_valid,    \* whether the broker accepts the stored access token
    queue,            \* orders queued by place_market, oldest first
    nextUid,          \* the number the next queued order is tagged with
    placedCount,      \* queued order -> times flush_queue placed it
    cyc,              \* per decision cycle thread: the frame of run_once
    wd,               \* the frame of the watchdog's check_api_connectivity
    fl,               \* the frame of flush_queue
    api_status,       \* SystemWatchdog.api_status
    lastTick,         \* the last completed check_api_connectivity
    is_running,       \* per service: self.is_running
    thread,           \* per service and loop thread: where the thread is
    stopper,          \* the stop() call in progress, if any
    system_status,    \* SystemWatchdog.system_status
    trading_status,   \* SystemWatchdog.trading_status
    alerts,           \* SystemWatchdog.alerts
    access_token,     \* zerodha_auth.access_token (0: none)
    mon,              \* the last token check of the refresher
    calc,             \* the last choose_strike / calculate_position_size call
    boot              \* main(): the configuration and where main() is

ledgerVars == <<open_positions, daily_pnl, now, closer, closed, nCloses, nAdds>>

riskVars == <<trade_count, global_exposure>>

queueVars == <<queue, nextUid, placedCount>>

wdVars == <<wd, fl, api_status, lastTick>>

svcVars == <<is_running, thread, stopper, system_status, trading_status,
             alerts, access_token, mon>>

hostVars == <<calc, boot>>

tradeVars == <<hostVars, entry_policy, trade_count, global_exposure, session_valid,
               queue, nextUid, placedCount, cyc, wd, fl, api_status,
               lastTick, svcVars>>

vars == <<open_positions, daily_pnl, now, closer, closed, nCloses, nAdds,
          entry_policy, trade_count, global_exposure, session_valid,
          queue, nextUid, placedCount, cyc, wd, fl, api_status,
          lastTick, is_running, thread, stopper, system_status,
          trading_status, alerts, access_token, mon, calc, boot>>

(***************************************************************************)
(* lot_manager.py                                                          *)
(***************************************************************************)

\* str.upper() on the order types the model feeds in
Upper(s) ==
    CASE s = "buy" -> "BUY"
      [] s = "sell" -> "SELL"
      [] OTHER -> s

\* position_id = f"{symbol}_{now:%Y%m%d_%H%M%S}": the symbol and the second
PositionId(symbol, t) == <<symbol, t>>

PositionIds == {PositionId(s, t) : s \in LedgerSymbols, t \in 0..MaxClock}

PnlSwapped(order_type, entry_price, exit_price, quantity) ==
    IF Upper(order_type) = "BUY"
    THEN (entry_price - exit_price) * quantity
    ELSE (exit_price - entry_price) * quantity

\* remove_position, the P&L of a close
Pnl(order_type, entry_price, exit_price, quantity) ==
    IF Upper(order_type) = "BUY"
    THEN (exit_price - entry_price) * quantity
    ELSE (entry_price - exit_price) * quantity

DelPositionKept(positions, id) == positions

\* del self.open_positions[position_id]
DelPosition(positions, id) ==
    [k \in (DOMAIN positions) \ {id} |-> positions[k]]

IdleFrame ==
    [pc |-> "idle", id |-> PositionId("NIFTY", 0), exit_price |-> 0,
     pos |-> [symbol |-> "NIFTY", quantity |-> 0, entry_price |-> 0,
              order_type |-> "BUY", unrealized_pnl |-> 0, serial |-> 0],
     pnl |-> 0, tmp |-> 0, d0 |-> 0, target |-> 0]

\* the record of a completed remove_position call: what it returned (found:
\* a P&L, not None), the daily P&L when it was called and when it returned,
\* and the position that was open under the id when it was called (target:
\* the serial number of that registration, 0 when none was)
CallRecord(f, found, after) ==
    [t |-> 0, id |-> f.id, exit_price |-> f.exit_price, pos |-> f.pos,
     found |-> found, pnl |-> IF found THEN f.pnl ELSE 0,
     before |-> f.d0, after |-> after, target |-> f.target]

Return(t, f, found, after) ==
    /\ closer' = [closer EXCEPT ![t] = IdleFrame]
    /\ LET all == Append(closed, [CallRecord(f, found, after) EXCEPT !.t = t])
       IN closed' = IF Len(all) > 2 THEN SubSeq(all, Len(all) - 1, Len(all)) ELSE all

\* add_position: open_positions[position_id] = {...}
AddPosition(symbol, quantity, entry_price, order_type) ==
    /\ nAdds < MaxAdds
    /\ nAdds' = nAdds + 1
    /\ open_positions' =
          [k \in (DOMAIN open_positions) \cup {PositionId(symbol, now)} |->
              IF k = PositionId(symbol, now)
              THEN [symbol |-> symbol, quantity |-> quantity,
                    entry_price |-> entry_price, order_type |-> order_type,
                    unrealized_pnl |-> 0, serial |-> nAdds + 1]
              ELSE open_positions[k]]
    /\ UNCHANGED <<daily_pnl, now, closer, closed, nCloses, tradeVars>>

\* remove_position, line 132: if position_id not in self.open_positions
RemoveCheck(t, id, exit_price) ==
    /\ closer[t].pc = "idle"
    /\ nCloses < MaxCloses
    /\ nCloses' = nCloses + 1
    /\ LET f == [IdleFrame EXCEPT !.id = id, !.exit_price = exit_price,
                                  !.d0 = daily_pnl]
       IN IF id \notin DOMAIN open_positions
          THEN Return(t, f, FALSE, daily_pnl)
          ELSE /\ closer' = [closer EXCEPT ![t] =
                     [f EXCEPT !.pc = "read",
                               !.target = open_positions[id].serial]]
               /\ UNCHANGED closed
    /\ UNCHANGED <<open_positions, daily_pnl, now, nAdds, tradeVars>>

\* lines 136-144: position = self.open_positions[position_id] (KeyError when
\* it is gone: except, return None), then the P&L
RemoveRead(t) ==
    /\ closer[t].pc = "read"
    /\ LET f == closer[t]
       IN IF f.id \notin DOMAIN open_positions
          THEN Return(t, f, FALSE, daily_pnl)
          ELSE LET p == open_positions[f.id]
               IN /\ closer' = [closer EXCEPT ![t] =
                        [f EXCEPT !.pc = "load", !.pos = p,
                                  !.pnl = Pnl(p.order_type, p.entry_price,
                                              f.exit_price, p.quantity)]]
                  /\ UNCHANGED closed
    /\ UNCHANGED <<open_positions, daily_pnl, now, nCloses, nAdds, tradeVars>>

\* line 147, self.daily_pnl += pnl: the load of self.daily_pnl
RemoveLoad(t) ==
    /\ closer[t].pc = "load"
    /\ closer' = [closer EXCEPT ![t].pc = "store", ![t].tmp = daily_pnl]
    /\ UNCHANGED <<open_positions, daily_pnl, now, closed, nCloses, nAdds, tradeVars>>

\* line 147, self.daily_pnl += pnl: the store
RemoveStore(t) ==
    /\ closer[t].pc = "store"
    /\ daily_pnl' = closer[t].tmp + closer[t].pnl
    /\ closer' = [closer EXCEPT ![t].pc = "del"]
    /\ UNCHANGED <<open_positions, now, closed, nCloses, nAdds, tradeVars>>

\* lines 150-153: del self.open_positions[position_id] (KeyError when it is
\* gone: except, return None), return pnl
RemoveDel(t) ==
    /\ closer[t].pc = "del"
    /\ LET f == closer[t]
       IN IF f.id \in DOMAIN open_positions
          THEN /\ open_positions' = DelPosition(open_positions, f.id)
               /\ Return(t, f, TRUE, daily_pnl)
          ELSE /\ UNCHANGED open_positions
               /\ Return(t, f, FALSE, daily_pnl)
    /\ UNCHANGED <<daily_pnl, now, nCloses, nAdds, tradeVars>>

\* reset_daily_pnl: self.daily_pnl = 0.0. The closes completed before it
\* are no longer part of the day
ResetDailyPnl ==
    /\ daily_pnl' = 0
    /\ closed' = <<>>
    /\ UNCHANGED <<open_positions, now, closer, nCloses, nAdds, tradeVars>>

\* a second passes on the wall clock
Tick ==
    /\ now < MaxClock
    /\ now' = now + 1
    /\ UNCHANGED <<open_positions, daily_pnl, closer, closed, nCloses, nAdds, tradeVars>>


(***************************************************************************)
(* config values strategy_expiry.py imports                                *)
(***************************************************************************)
GLOBAL_EXPOSURE_CAP == 30
MAX_TRADES_PER_INSTRUMENT == 2
\* MARKET['force_exit'], minutes after midnight
ForceExit == 915
\* AWARENESS['lr_slope_min']
LrSlopeMin == 1
\* TIME_WINDOWS: morning [MorningStart, MorningEnd), midday [MorningEnd,
\* MiddayEnd), afternoon [MiddayEnd, AfternoonEnd)
MorningStart == 555
MorningEnd == 660
MiddayEnd == 780
AfternoonEnd == 900
\* OPTION_CONFIRM_MIN, OPTION_CONFIRM_MIN_HIGH_VIX (hundredths), VIX_BANDS['high']
OptionConfirmMin == 70
OptionConfirmMinHighVix == 60
VixHigh == 20

(***************************************************************************)
(* strategy_expiry.py                                                      *)
(***************************************************************************)
\* '14:00', minutes after midnight
LastEntry == 840
\* est_premium = 10.0
EstPremium == 10
\* get_vix
Vix == 15
\* option_confirm_score, hundredths
OptScore == 80

\* fut_ltp is a float: prices are in hundredths of a point, strikes in
\* whole points. int((x//50)*50)
floor50(x) == (x \div 5000) * 50

\* int(((x+49)//50)*50)
ceil50(x) == ((x + 4900) \div 5000) * 50

\* int(round(x/50.0)*50): round() takes a half to the even integer
round50(x) ==
    LET q == x \div 5000
        r == x % 5000
    IN IF r < 2500 THEN q * 50
       ELSE IF r > 2500 THEN (q + 1) * 50
       ELSE IF q % 2 = 0 THEN q * 50 ELSE (q + 1) * 50

choose_strike(fut_ltp, direction, hhmm) ==
    IF MorningStart <= hhmm /\ hhmm < MorningEnd
    THEN (IF direction = "BULL" THEN ceil50(fut_ltp) ELSE floor50(fut_ltp))
            + (IF direction = "BULL" THEN 100 ELSE 0 - 100)
    ELSE IF MorningEnd <= hhmm /\ hhmm < MiddayEnd
    THEN round50(fut_ltp)
    ELSE IF MiddayEnd <= hhmm /\ hhmm < AfternoonEnd
    THEN (IF direction = "BULL" THEN floor50(fut_ltp) ELSE ceil50(fut_ltp))
    ELSE 0 - 1

\* fetch_snapshot, lines 357-361: the strike step of the instrument
StrikeStep(symbol) ==
    IF symbol = "BANKNIFTY" THEN 100
    ELSE IF symbol = "MIDCPNIFTY" THEN 25
    ELSE 50

\* _nearest_step: int(round(float(price)/step)*step), a half to the even
NearestStep(price, step) ==
    LET q == price \div (step * 100)
        r == price % (step * 100)
    IN IF 2 * r < step * 100 THEN q * step
       ELSE IF 2 * r > step * 100 THEN (q + 1) * step
       ELSE IF q % 2 = 0 THEN q * step ELSE (q + 1) * step

(***************************************************************************)
(* strategy_expiry.oi_volume_gate                                          *)
(***************************************************************************)
\* sum(s.oi for s in _band(strikes, atm, band, side)): the rows within
\* band * 50 points of atm. A snapshot holds atm (0 after a failed fetch)
\* and the open interest of the CE and PE rows at the at-the-money strike
\* and 150 points from it
BandOi(snap, band, side) ==
    IF side = "CE"
    THEN snap.ce0 + (IF band * 50 >= 150 THEN snap.ce150 ELSE 0)
    ELSE snap.pe0 + (IF band * 50 >= 150 THEN snap.pe150 ELSE 0)

\* lines 51-72. raised: a computation inside the try raises. A ratio
\* (n / d) if d > 0 else 0.0 is kept as numerator and denominator
oi_volume_gate(snap, raised) ==
    IF raised \/ snap.atm = 0 THEN FALSE
    ELSE LET Quotient(n, d) == IF d > 0 THEN <<n, d>> ELSE <<0, 1>>
             x_pcr == Quotient(BandOi(snap, 6, "PE"), BandOi(snap, 6, "CE"))
             ce_skew == Quotient(BandOi(snap, 2, "CE"), BandOi(snap, 2, "PE"))
             pe_skew == Quotient(BandOi(snap, 2, "PE"), BandOi(snap, 2, "CE"))
             vel_ce == Quotient(BandOi(snap, 1, "CE"), BandOi(snap, 3, "CE"))
             vel_pe == Quotient(BandOi(snap, 1, "PE"), BandOi(snap, 3, "PE"))
         IN \/ /\ x_pcr[1] * 10 < 8 * x_pcr[2]
               /\ pe_skew[1] * 10 < 9 * pe_skew[2]
               /\ vel_ce[1] * 10 > 6 * vel_ce[2]
            \/ /\ x_pcr[1] * 10 > 12 * x_pcr[2]
               /\ ce_skew[1] * 10 < 9 * ce_skew[2]
               /\ vel_pe[1] * 10 > 6 * vel_pe[2]

\* line 90: the call of oi_volume_gate in a cycle
OiVolumeGate(snap, raised) ==
    /\ calc' = [op |-> "oi_gate", snap |-> snap, raised |-> raised,
                ret |-> oi_volume_gate(snap, raised)]
    /\ UNCHANGED <<ledgerVars, svcVars, boot, entry_policy, riskVars, session_valid,
                   queueVars, cyc, wdVars>>

(***************************************************************************)
(* lot_manager.can_open / register_entry                                   *)
(***************************************************************************)
can_open(symbol, exposure) ==
    /\ trade_count[symbol] < MAX_TRADES_PER_INSTRUMENT
    /\ global_exposure + exposure <= GLOBAL_EXPOSURE_CAP

register_entry(symbol, exposure) ==
    /\ trade_count' = [trade_count EXCEPT ![symbol] = @ + 1]
    /\ global_exposure' = global_exposure + exposure

(***************************************************************************)
(* kite_api.place_market / flush_queue                                     *)
(***************************************************************************)
QueuedOrder(uid, tsym, quantity, side) ==
    [uid |-> uid, symbol |-> tsym, quantity |-> quantity, side |-> side,
     product |-> "MIS", order_type |-> "MARKET"]

EnqueueTwice(q, order) == Append(Append(q, order), order)

\* place_market appends the order it could not submit
Enqueue(q, order) == Append(q, order)

RequeueDropped(q, order) == q

\* flush_queue puts an order that failed again back
Requeue(q, order) == Append(q, order)

PendingLive(snap, q, i) == SubSeq(snap, i + 1, Len(snap)) \o q

\* flush_queue works through the snapshot it took: what is left of it after
\* i orders
Pending(snap, q, i) == SubSeq(snap, i + 1, Len(snap))

CountPlaced(uid) ==
    IF uid \in DOMAIN placedCount
    THEN [placedCount EXCEPT ![uid] = @ + 1]
    ELSE [k \in (DOMAIN placedCount) \cup {uid} |->
             IF k = uid THEN 1 ELSE placedCount[k]]

IdleFlush ==
    [pc |-> "idle", snap |-> <<>>, i |-> 0, placed |-> 0, failed |-> 0,
     calls |-> 0, enq |-> 0, good |-> 0, placedUids |-> {},
     failedOrders |-> {}]

NoResult == [n |-> 0 - 1]

FlushCountersOffByOne(placed, failed, q) ==
    [placed |-> placed, failed |-> failed, remaining |-> Len(q) + 1]

\* what flush_queue returns: {placed, failed, remaining}
FlushCounters(placed, failed, q) ==
    [placed |-> placed, failed |-> failed, remaining |-> Len(q)]

\* place_market with a session that is not valid: queue the order
PlaceQueued(c) ==
    /\ queue' = Enqueue(queue, QueuedOrder(nextUid, cyc[c].tsym, cyc[c].lots, "BUY"))
    /\ nextUid' = nextUid + 1
    /\ fl' = IF fl.pc = "items" THEN [fl EXCEPT !.enq = @ + 1] ELSE fl
    /\ cyc' = [cyc EXCEPT ![c].pc = "register", ![c].res = "queued",
                          ![c].called = FALSE, ![c].uid = nextUid,
                          ![c].qlen0 = Len(queue), ![c].sess = FALSE]

\* an order reaches the broker when the session is valid, and is placed when
\* the broker accepts it
PlaceSucceeds(valid, accept) == valid /\ accept

\* flush_queue: take the queue's orders out as the pass's snapshot
FlushStart ==
    /\ wd.pc = "flush"
    /\ fl.pc = "idle"
    /\ fl' = [IdleFlush EXCEPT !.pc = "items", !.snap = queue]
    /\ queue' = <<>>
    /\ UNCHANGED <<ledgerVars, svcVars, hostVars, entry_policy, riskVars, session_valid, nextUid,
                   placedCount, cyc, wd, api_status, lastTick>>

\* flush_queue, one order of the pass: check the session, place the order
\* (accept: the broker takes it), put it back when either fails
FlushItem(accept) ==
    /\ fl.pc = "items"
    /\ Pending(fl.snap, queue, fl.i) # <<>>
    /\ LET order == Head(Pending(fl.snap, queue, fl.i))
       IN IF PlaceSucceeds(session_valid, accept)
          THEN /\ placedCount' = CountPlaced(order.uid)
               /\ fl' = [fl EXCEPT !.i = @ + 1, !.placed = @ + 1,
                                   !.calls = @ + 1,
                                   !.good = @ + (IF session_valid /\ accept
                                                 THEN 1 ELSE 0),
                                   !.placedUids = @ \cup {order.uid}]
               /\ UNCHANGED queue
          ELSE /\ queue' = Requeue(queue, order)
               /\ fl' = [fl EXCEPT !.i = @ + 1, !.failed = @ + 1,
                                   !.calls = @ + (IF session_valid THEN 1 ELSE 0),
                                   !.failedOrders = @ \cup {order}]
               /\ UNCHANGED placedCount
    /\ UNCHANGED <<ledgerVars, svcVars, hostVars, entry_policy, riskVars, session_valid, nextUid,
                   cyc, wd, api_status, lastTick>>

\* flush_queue returns {placed, failed, remaining}
FlushEnd ==
    /\ fl.pc = "items"
    /\ Pending(fl.snap, queue, fl.i) = <<>>
    /\ wd' = [wd EXCEPT !.pc = "status",
                        !.res = [n |-> Len(fl.snap),
                                 ret |-> FlushCounters(fl.placed, fl.failed, queue),
                                 calls |-> fl.calls, processed |-> fl.i,
                                 good |-> fl.good,
                                 enq |-> fl.enq, snap |-> fl.snap,
                                 placedUids |-> fl.placedUids,
                                 failedOrders |-> fl.failedOrders,
                                 queue |-> queue]]
    /\ fl' = IdleFlush
    /\ UNCHANGED <<ledgerVars, svcVars, hostVars, entry_policy, riskVars, session_valid, queueVars,
                   cyc, api_status, lastTick>>

(***************************************************************************)
(* strategy_expiry.run_once                                                *)
(***************************************************************************)
IdleCycle ==
    [pc |-> "idle", symbol |-> "NIFTY", tsym |-> <<"NIFTY", 0, "CE">>,
     lots |-> 0, exposure |-> 0, res |-> "none", called |-> FALSE,
     uid |-> 0, qlen0 |-> 0, sess |-> FALSE, fetched |-> FALSE,
     reason |-> "none"]

ExposureGateOpen(symbol, exposure) == TRUE

\* lines 111-112: if not can_open(symbol, exposure): ...; return
ExposureGate(symbol, exposure) == can_open(symbol, exposure)

ForceExitGateStrict(hhmm) == hhmm > ForceExit

\* line 80: if hhmm >= MARKET['force_exit']
ForceExitGate(hhmm) == hhmm >= ForceExit

CutoffGateStrikeOnly(strike, hhmm) == strike < 0

\* line 95: if strike < 0 or hhmm >= '14:00'
CutoffGate(strike, hhmm) == strike < 0 \/ hhmm >= LastEntry

PolicyGateOrderTypeOnly(policy) == policy[2] # "MARKET"

\* line 114: if ENTRY_POLICY['product'] != 'MIS' or
\* ENTRY_POLICY['order_type'] != 'MARKET'
PolicyGate(policy) == policy[1] # "MIS" \/ policy[2] # "MARKET"

\* run_once lines 82-96 for one snapshot: the at-the-money strike
\* fetch_snapshot computed (line 362), the strike choose_strike returns
\* (line 94) and whether line 95 ends the cycle
SelectStrike(symbol, fut, above, hhmm) ==
    /\ LET direction == IF above THEN "BULL" ELSE "BEAR"
           strike == choose_strike(fut, direction, hhmm)
       IN calc' = [op |-> "strike", symbol |-> symbol, fut |-> fut,
                   direction |-> direction, hhmm |-> hhmm,
                   atm |-> IF fut # 0 THEN NearestStep(fut, StrikeStep(symbol))
                           ELSE 0,
                   strike |-> strike,
                   rejected |-> CutoffGate(strike, hhmm)]
    /\ UNCHANGED <<ledgerVars, svcVars, boot, entry_policy, riskVars, session_valid,
                   queueVars, cyc, wdVars>>

\* lines 80-115: the reason of the first gate that stops the cycle, "pass"
\* when none does
GateReason(symbol, hhmm, slope, strike, exposure) ==
    IF ForceExitGate(hhmm) THEN "force_exit"
    ELSE IF slope < LrSlopeMin THEN "lr_slope"
    ELSE IF CutoffGate(strike, hhmm) THEN "no_new_entries"
    ELSE IF OptScore < (IF Vix >= VixHigh THEN OptionConfirmMinHighVix
                        ELSE OptionConfirmMin) THEN "option_confirm"
    ELSE IF ~ExposureGate(symbol, exposure) THEN "exposure_cap"
    ELSE IF PolicyGate(entry_policy) THEN "policy"
    ELSE "pass"

\* lines 78-115: the gates of one cycle. slope: f3.lr_slope_3m, above:
\* f3.price_above_200wma, oi: what oi_volume_gate returned, fut: snap.fut_ltp,
\* lots: what decide_lots returned
RunOnceGates(c, symbol, hhmm, slope, above, oi, fut, lots) ==
    /\ cyc[c].pc = "idle"
    /\ LET direction == IF above THEN "BULL" ELSE "BEAR"
           strike == choose_strike(fut, direction, hhmm)
           side == IF direction = "BULL" THEN "CE" ELSE "PE"
           exposure == EstPremium * lots
           fetched == ~ForceExitGate(hhmm)
           reason == IF ~ForceExitGate(hhmm) /\ slope >= LrSlopeMin /\ ~oi
                     THEN "oi_volume"
                     ELSE GateReason(symbol, hhmm, slope, strike, exposure)
       IN cyc' = [cyc EXCEPT ![c] =
                    IF reason = "pass"
                    THEN [IdleCycle EXCEPT !.pc = "place", !.symbol = symbol,
                                           !.tsym = <<symbol, strike, side>>,
                                           !.lots = lots, !.exposure = exposure,
                                           !.fetched = fetched,
                                           !.reason = reason]
                    ELSE [IdleCycle EXCEPT !.reason = reason,
                                           !.fetched = fetched]]
    /\ UNCHANGED <<ledgerVars, svcVars, hostVars, entry_policy, riskVars, session_valid, queueVars,
                   wd, fl, api_status, lastTick>>

RunOncePlaceSwallowed(c, accept) ==
    /\ cyc[c].pc = "place"
    /\ IF ~session_valid
       THEN /\ PlaceQueued(c)
            /\ UNCHANGED placedCount
       ELSE /\ cyc' = [cyc EXCEPT ![c] =
                         [@ EXCEPT !.pc = "register",
                                   !.res = IF accept THEN "ok" ELSE "rejected",
                                   !.called = TRUE, !.sess = TRUE,
                                   !.qlen0 = Len(queue)]]
            /\ UNCHANGED <<queueVars, fl>>
    /\ UNCHANGED <<ledgerVars, svcVars, hostVars, entry_policy, riskVars, session_valid, wd,
                   api_status, lastTick>>

\* line 117: res = place_market(...). With a valid session the broker takes
\* the order (accept) or place_order raises, and run_once ends there
RunOncePlace(c, accept) ==
    /\ cyc[c].pc = "place"
    /\ IF ~session_valid
       THEN /\ PlaceQueued(c)
            /\ UNCHANGED placedCount
       ELSE /\ cyc' = [cyc EXCEPT ![c] =
                         IF accept
                         THEN [@ EXCEPT !.pc = "register", !.res = "ok",
                                        !.called = TRUE, !.sess = TRUE,
                                        !.qlen0 = Len(queue)]
                         ELSE [IdleCycle EXCEPT !.reason = "raised",
                                                !.fetched = TRUE,
                                                !.called = TRUE]]
            /\ UNCHANGED <<queueVars, fl>>
    /\ UNCHANGED <<ledgerVars, svcVars, hostVars, entry_policy, riskVars, session_valid, wd,
                   api_status, lastTick>>

\* lines 118-124: register_entry(symbol, exposure), then the notifications
RunOnceRegister(c) ==
    /\ cyc[c].pc = "register"
    /\ register_entry(cyc[c].symbol, cyc[c].exposure)
    /\ cyc' = [cyc EXCEPT ![c] = [IdleCycle EXCEPT !.reason = "entered",
                                                   !.fetched = TRUE,
                                                   !.res = cyc[c].res]]
    /\ UNCHANGED <<ledgerVars, svcVars, hostVars, entry_policy, session_valid, queueVars, wd, fl,
                   api_status, lastTick>>

(***************************************************************************)
(* watchdog.check_api_connectivity                                         *)
(***************************************************************************)
IdleWd ==
    [pc |-> "idle", nse |-> TRUE, auth |-> FALSE, margins |-> "none",
     kite |-> "UNKNOWN", flushed |-> FALSE, res |-> NoResult]

\* lines 151-160, 170-171: NOT_AUTHENTICATED unless is_authenticated(); then
\* CONNECTED when get_margins() answers success, ERROR when it answers
\* anything else or raises
KiteStatus(auth, margins) ==
    IF ~auth THEN "NOT_AUTHENTICATED"
    ELSE IF margins = "success" THEN "CONNECTED"
    ELSE "ERROR"

FlushWantedUnlessError(kite_status) == kite_status # "ERROR"

\* line 162: if kite_status == "CONNECTED"
FlushWanted(kite_status) == kite_status = "CONNECTED"

\* nse_data.get_market_status: the status request answered (reachable) or
\* failed; a failed request is caught and the closed-market dictionary is
\* returned in place of the answer
get_market_status(reachable) ==
    IF reachable
    THEN [market_session |-> "OPEN", market_data |-> "marketState"]
    ELSE [market_session |-> "CLOSED", market_data |-> "none"]

KiteErrorOnFlushFailure(kite_status, flush_failed) ==
    IF flush_failed THEN "ERROR" ELSE kite_status

\* lines 163-169: flush_queue is called in a try of its own, whose except
\* logs the failure and does not assign kite_status
KiteAfterFlush(kite_status, flush_failed) == kite_status

ApiStatusRaw(market_status, kite_status) == kite_status

\* lines 175, 192-195: nse_api is CONNECTED when market_status is a
\* non-empty dictionary
ApiStatus(market_status, kite_status) ==
    IF /\ DOMAIN market_status # {}
       /\ kite_status \in {"CONNECTED", "NOT_AUTHENTICATED"}
    THEN "CONNECTED" ELSE "ERROR"

\* lines 142-162: the probes. reachable: the market-data provider answered;
\* net_ok: the session request got through; margins: what get_margins did
WdProbe(reachable, net_ok, margins) ==
    /\ wd.pc = "idle"
    /\ LET auth == session_valid /\ net_ok
           kite == KiteStatus(auth, margins)
       IN wd' = [IdleWd EXCEPT !.pc = IF FlushWanted(kite) THEN "flush"
                                       ELSE "status",
                               !.nse = reachable,
                               !.auth = auth,
                               !.margins = IF auth THEN margins ELSE "none",
                               !.kite = kite,
                               !.flushed = FlushWanted(kite)]
    /\ UNCHANGED <<ledgerVars, svcVars, hostVars, entry_policy, riskVars, session_valid, queueVars,
                   cyc, fl, api_status, lastTick>>

\* lines 173-197: set api_status and return
WdStatus ==
    /\ wd.pc = "status"
    /\ api_status' = ApiStatus(get_market_status(wd.nse), wd.kite)
    /\ lastTick' = [nse |-> wd.nse, kite |-> wd.kite, flushed |-> wd.flushed,
                    failed |-> FALSE, auth |-> wd.auth,
                    margins |-> wd.margins]
    /\ wd' = IdleWd
    /\ UNCHANGED <<ledgerVars, svcVars, hostVars, entry_policy, riskVars, session_valid, queueVars,
                   cyc, fl>>

\* the broker session expires, or is renewed by a manual login
EnvSession ==
    /\ session_valid' = ~session_valid
    /\ UNCHANGED <<ledgerVars, svcVars, hostVars, entry_policy, riskVars, queueVars, cyc, wd, fl,
                   api_status, lastTick>>

(***************************************************************************)
(* watchdog.py / auto_token_refresher.py: start, stop and the loop thread  *)
(***************************************************************************)
IdleStopper == [pc |-> "idle", svc |-> "watchdog", th |-> 0]

\* the steps of one pass of the loop body: perform_health_check runs the
\* three checks; the refresher's pass is one token check
FirstPhase(s) == IF s = "watchdog" THEN "system" ELSE "tick"

Phases == {"system", "trading", "api", "tick"}

Live(s) == {t \in Threads : thread[s][t] \notin {"none", "done"}}

Created(s) == {t \in Threads : thread[s][t] # "none"}

\* self.watchdog_thread / self.refresh_thread: the thread started last
LastThread(s) == Cardinality(Created(s))

\* start(): return when is_running, else set it and start a new loop thread
StartCall(s) ==
    /\ stopper.pc = "idle"
    /\ ~is_running[s]
    /\ LastThread(s) < MaxThreads
    /\ is_running' = [is_running EXCEPT ![s] = TRUE]
    /\ thread' = [thread EXCEPT ![s][LastThread(s) + 1] = "test"]
    /\ UNCHANGED <<ledgerVars, calc, entry_policy, riskVars, session_valid, queueVars,
                   cyc, wdVars, stopper, system_status, trading_status, alerts,
                   access_token, mon>>

\* start() called while main() is not being followed
Start(s) == StartCall(s) /\ UNCHANGED boot

\* stop(): return when not is_running, else clear it and join the thread
\* started last, for at most 5 seconds, when it is alive
StopCall(s) ==
    /\ stopper.pc = "idle"
    /\ is_running[s]
    /\ is_running' = [is_running EXCEPT ![s] = FALSE]
    /\ stopper' = IF LastThread(s) \in Live(s)
                  THEN [pc |-> "join", svc |-> s, th |-> LastThread(s)]
                  ELSE IdleStopper
    /\ UNCHANGED <<ledgerVars, calc, entry_policy, riskVars, session_valid, queueVars,
                   cyc, wdVars, thread, system_status, trading_status, alerts,
                   access_token, mon>>

\* stop() called while main() is not being followed
StopBegin(s) == StopCall(s) /\ UNCHANGED boot

\* join returns: the thread has ended
StopJoined ==
    /\ stopper.pc = "join"
    /\ thread[stopper.svc][stopper.th] = "done"
    /\ stopper' = IdleStopper
    /\ UNCHANGED <<ledgerVars, hostVars, entry_policy, riskVars, session_valid, queueVars,
                   cyc, wdVars, is_running, thread, system_status,
                   trading_status, alerts, access_token, mon>>

\* join returns: the 5 seconds are over and the thread is still alive
StopTimeout ==
    /\ stopper.pc = "join"
    /\ thread[stopper.svc][stopper.th] # "done"
    /\ stopper' = IdleStopper
    /\ UNCHANGED <<ledgerVars, hostVars, entry_policy, riskVars, session_valid, queueVars,
                   cyc, wdVars, is_running, thread, system_status,
                   trading_status, alerts, access_token, mon>>

LoopContinuesAlways(running) == TRUE

\* while self.is_running
LoopContinues(running) == running

LoopTest(s, t) ==
    /\ thread[s][t] = "test"
    /\ thread' = [thread EXCEPT ![s][t] = IF LoopContinues(is_running[s])
                                          THEN FirstPhase(s) ELSE "done"]
    /\ UNCHANGED <<ledgerVars, hostVars, entry_policy, riskVars, session_valid, queueVars,
                   cyc, wdVars, is_running, stopper, system_status,
                   trading_status, alerts, access_token, mon>>

LoopDiesOnError(phase) == "done"

\* except Exception as e: log, time.sleep(self.check_interval)
LoopAfterError(phase) == "sleep"

\* an exception leaves the body of the loop
LoopRaise(s, t) ==
    /\ thread[s][t] \in Phases
    /\ thread' = [thread EXCEPT ![s][t] = LoopAfterError(thread[s][t])]
    /\ UNCHANGED <<ledgerVars, hostVars, entry_policy, riskVars, session_valid, queueVars,
                   cyc, wdVars, is_running, stopper, system_status,
                   trading_status, alerts, access_token, mon>>

\* time.sleep(self.check_interval) ends
LoopWake(s, t) ==
    /\ thread[s][t] = "sleep"
    /\ thread' = [thread EXCEPT ![s][t] = "test"]
    /\ UNCHANGED <<ledgerVars, hostVars, entry_policy, riskVars, session_valid, queueVars,
                   cyc, wdVars, is_running, stopper, system_status,
                   trading_status, alerts, access_token, mon>>

(***************************************************************************)
(* watchdog.py: alerts and the three checks of perform_health_check        *)
(***************************************************************************)
CpuThreshold == 80
MemoryThreshold == 80
DiskThreshold == 90
MaxLossThreshold == 0 - 5000
MaxPositionSize == 100000

NotifiedUntilRaise(cbs, raising) ==
    {cbs[i] : i \in {j \in 1..Len(cbs) : \A k \in 1..(j - 1) : cbs[k] \notin raising}}

\* for callback in self.alert_callbacks: try: callback(alert) except: log
Notified(cbs, raising) == {cbs[i] : i \in 1..Len(cbs)}

\* _send_alert: the alert as recorded, with the callbacks that were called
\* with it; raising: the callbacks that raise
Alert(type, severity, raising) ==
    [type |-> type, severity |-> severity,
     notified |-> Notified(Callbacks, raising), raised |-> raising]

SystemAlerts(cpu, mem, disk, raising) ==
    (IF cpu > CpuThreshold THEN <<Alert("SYSTEM", "WARNING", raising)>> ELSE <<>>)
    \o (IF mem > MemoryThreshold THEN <<Alert("SYSTEM", "WARNING", raising)>> ELSE <<>>)
    \o (IF disk > DiskThreshold THEN <<Alert("SYSTEM", "CRITICAL", raising)>> ELSE <<>>)

SystemStatus(cpu, mem, disk) ==
    IF cpu < CpuThreshold /\ mem < MemoryThreshold /\ disk < DiskThreshold
    THEN "HEALTHY" ELSE "DEGRADED"

\* check_system_resources. raised: psutil raises; raising: the callbacks
\* that raise when called
CheckSystem(t, cpu, mem, disk, raised, raising) ==
    /\ thread["watchdog"][t] = "system"
    /\ IF raised
       THEN /\ system_status' = "ERROR"
            /\ UNCHANGED alerts
       ELSE /\ Len(alerts) + Len(SystemAlerts(cpu, mem, disk, raising)) <= MaxAlerts
            /\ alerts' = alerts \o SystemAlerts(cpu, mem, disk, raising)
            /\ system_status' = SystemStatus(cpu, mem, disk)
    /\ thread' = [thread EXCEPT !["watchdog"][t] = "trading"]
    /\ UNCHANGED <<ledgerVars, hostVars, entry_policy, riskVars, session_valid, queueVars,
                   cyc, wdVars, is_running, stopper, trading_status,
                   access_token, mon>>

RECURSIVE PositionValue(_)
PositionValue(ids) ==
    IF ids = {} THEN 0
    ELSE LET id == CHOOSE x \in ids : TRUE
         IN open_positions[id].quantity * open_positions[id].entry_price
               + PositionValue(ids \ {id})

\* lot_manager._calculate_risk_utilization, whole percent
RiskUtilization == (PositionValue(DOMAIN open_positions) * 100) \div MaxPositionSize

\* lot_manager.get_position_summary; failed: it caught an exception and
\* returned {}
PositionSummary(failed) ==
    IF failed
    THEN [daily_pnl |-> 0, open_positions |-> 0, risk_utilization |-> 0]
    ELSE [daily_pnl |-> daily_pnl,
          open_positions |-> Cardinality(DOMAIN open_positions),
          risk_utilization |-> RiskUtilization]

TradingAlerts(perf, raising) ==
    (IF perf.daily_pnl < MaxLossThreshold
     THEN <<Alert("TRADING", "CRITICAL", raising)>> ELSE <<>>)
    \o (IF perf.risk_utilization > 90
        THEN <<Alert("TRADING", "WARNING", raising)>> ELSE <<>>)

TradingStatus(perf) == IF perf.open_positions > 0 THEN "ACTIVE" ELSE "IDLE"

\* check_trading_performance. failed: the ledger query failed; raised: an
\* exception inside the check
CheckTrading(t, failed, raised, raising) ==
    /\ thread["watchdog"][t] = "trading"
    /\ IF raised
       THEN /\ trading_status' = "ERROR"
            /\ UNCHANGED alerts
       ELSE LET perf == PositionSummary(failed)
            IN /\ Len(alerts) + Len(TradingAlerts(perf, raising)) <= MaxAlerts
               /\ alerts' = alerts \o TradingAlerts(perf, raising)
               /\ trading_status' = TradingStatus(perf)
    /\ thread' = [thread EXCEPT !["watchdog"][t] = "api"]
    /\ UNCHANGED <<ledgerVars, hostVars, entry_policy, riskVars, session_valid, queueVars,
                   cyc, wdVars, is_running, stopper, system_status,
                   access_token, mon>>

\* zerodha_auth.validate_session: a token is stored and the broker answers
\* the profile request with success
ValidateSession(token, valid, net_ok) == token # 0 /\ valid /\ net_ok

\* zerodha_auth.is_authenticated
IsAuthenticated(token, valid, net_ok) ==
    token # 0 /\ ValidateSession(token, valid, net_ok)

\* check_api_connectivity as one step of the loop thread. reachable: the
\* market-data provider answered; margins: what get_margins did;
\* flush_raises: flush_queue raised; ok: the queued orders (by position) the
\* flush placed; outer: an exception outside the inner try
CheckApi(t, reachable, net_ok, margins, flush_raises, ok, outer) ==
    /\ thread["watchdog"][t] = "api"
    /\ wd.pc = "idle"
    /\ fl.pc = "idle"
    /\ LET auth == IsAuthenticated(access_token, session_valid, net_ok)
           probed == KiteStatus(auth, margins)
           failed == FlushWanted(probed) /\ flush_raises
           kite == KiteAfterFlush(probed, failed)
           flush == ~outer /\ FlushWanted(probed) /\ ~flush_raises
           placed == {queue[i].uid : i \in ok}
       IN /\ api_status' = IF outer THEN "ERROR"
                          ELSE ApiStatus(get_market_status(reachable), kite)
          /\ IF flush
             THEN /\ queue' = SelectSeq(queue, LAMBDA o : o.uid \notin placed)
                  /\ placedCount' =
                        [u \in (DOMAIN placedCount) \cup placed |->
                            (IF u \in DOMAIN placedCount THEN placedCount[u] ELSE 0)
                            + (IF u \in placed THEN 1 ELSE 0)]
             ELSE UNCHANGED <<queue, placedCount>>
          /\ lastTick' = IF outer THEN lastTick
                         ELSE [nse |-> reachable, kite |-> kite,
                               flushed |-> FlushWanted(probed),
                               failed |-> failed,
                               auth |-> auth,
                               margins |-> IF auth THEN margins ELSE "none"]
    /\ thread' = [thread EXCEPT !["watchdog"][t] = "sleep"]
    /\ UNCHANGED <<ledgerVars, hostVars, entry_policy, riskVars, session_valid, nextUid,
                   cyc, wd, fl, is_running, stopper, system_status,
                   trading_status, alerts, access_token, mon>>

\* _determine_overall_status
OverallStatus(system, api, trading) ==
    IF \A st \in {system, api, trading} :
          st \in {"HEALTHY", "CONNECTED", "ACTIVE", "IDLE"}
    THEN "HEALTHY"
    ELSE IF \E st \in {system, api, trading} : st = "ERROR"
    THEN "ERROR"
    ELSE "DEGRADED"

\* clear_alerts
ClearAlerts ==
    /\ alerts # <<>>
    /\ alerts' = <<>>
    /\ UNCHANGED <<ledgerVars, hostVars, entry_policy, riskVars, session_valid, queueVars,
                   cyc, wdVars, is_running, thread, stopper, system_status,
                   trading_status, access_token, mon>>

(***************************************************************************)
(* auto_token_refresher.py: the token check                                *)
(***************************************************************************)
RefreshTokenRenews(authenticated) == authenticated

\* refresh_token: False when not authenticated, and False after the
\* 'please re-authenticate manually' warning otherwise
RefreshToken(authenticated) == FALSE

TokenRenewed(token) == token + 1

\* the stored token after refresh_token: it is not assigned
TokenAfterRefresh(token) == token

\* the body of _refresh_loop / force_check. net_ok: the profile request of
\* validate_session got through (net_ok2: the one of is_authenticated).
\* notified: _notify_callbacks was called (line 77, in the loop only)
TokenCheck(by, net_ok, net_ok2) ==
    LET valid == ValidateSession(access_token, session_valid, net_ok)
        refreshed == IF valid THEN FALSE
                     ELSE RefreshToken(IsAuthenticated(access_token,
                                                       session_valid, net_ok2))
        token == IF valid THEN access_token ELSE TokenAfterRefresh(access_token)
    IN /\ access_token' = token
       /\ mon' = [by |-> by, valid |-> valid, refreshed |-> refreshed,
                  log |-> IF valid THEN "none"
                          ELSE IF refreshed THEN "refreshed" ELSE "manual",
                  ret |-> IF valid THEN TRUE ELSE refreshed,
                  notified |-> by = "loop" /\ refreshed,
                  tok0 |-> access_token, tok1 |-> token]

\* one pass of _refresh_loop
RefreshTick(t, net_ok, net_ok2) ==
    /\ thread["refresher"][t] = "tick"
    /\ TokenCheck("loop", net_ok, net_ok2)
    /\ thread' = [thread EXCEPT !["refresher"][t] = "sleep"]
    /\ UNCHANGED <<ledgerVars, hostVars, entry_policy, riskVars, session_valid, queueVars,
                   cyc, wdVars, is_running, stopper, system_status,
                   trading_status, alerts>>

\* force_check
ForceCheck(net_ok, net_ok2) ==
    /\ TokenCheck("force", net_ok, net_ok2)
    /\ UNCHANGED <<ledgerVars, hostVars, entry_policy, riskVars, session_valid, queueVars,
                   cyc, wdVars, is_running, thread, stopper, system_status,
                   trading_status, alerts>>

\* zerodha_auth.generate_session: a manual login stores a new token
Login ==
    /\ access_token' = IF access_token = 1 THEN 2 ELSE 1
    /\ session_valid' = TRUE
    /\ UNCHANGED <<ledgerVars, hostVars, entry_policy, riskVars, queueVars, cyc, wdVars,
                   is_running, thread, stopper, system_status, trading_status,
                   alerts, mon>>

\* zerodha_auth.logout
Logout ==
    /\ access_token # 0
    /\ access_token' = 0
    /\ session_valid' = FALSE
    /\ UNCHANGED <<ledgerVars, hostVars, entry_policy, riskVars, queueVars, cyc, wdVars,
                   is_running, thread, stopper, system_status, trading_status,
                   alerts, mon>>

(***************************************************************************)
(* lot_manager.calculate_position_size                                     *)
(***************************************************************************)
\* config.trading.risk_per_trade, in percent
RiskPerTradePct == 2

\* get_lot_size: lot_sizes.get(base_symbol.upper(), 1)
LotSize(symbol) ==
    CASE symbol = "NIFTY" -> 50
      [] symbol = "BANKNIFTY" -> 15
      [] symbol = "FINNIFTY" -> 40
      [] symbol = "MIDCPNIFTY" -> 75
      [] symbol = "SENSEX" -> 10
      [] symbol = "BANKEX" -> 15
      [] OTHER -> 1

RoundUpToLot(max_quantity, lot_size) ==
    ((max_quantity + lot_size - 1) \div lot_size) * lot_size

\* lines 52-53: lots = max_quantity // lot_size; quantity = lots * lot_size
RoundDownToLot(max_quantity, lot_size) ==
    (max_quantity \div lot_size) * lot_size

\* calculate_position_size(symbol, entry_price, stop_loss), prices in
\* hundredths
calculate_position_size(symbol, entry_price, stop_loss) ==
    LET price_diff == IF entry_price >= stop_loss THEN entry_price - stop_loss
                      ELSE stop_loss - entry_price
        \* max_position_size * risk_per_trade, in hundredths (points times
        \* percent)
        risk_amount == MaxPositionSize * RiskPerTradePct
    IN IF price_diff = 0 THEN 0
       ELSE RoundDownToLot(risk_amount \div price_diff, LotSize(symbol))

\* a call of calculate_position_size
SizePosition(symbol, entry_price, stop_loss) ==
    /\ calc' = [op |-> "size", symbol |-> symbol, entry_price |-> entry_price,
                stop_loss |-> stop_loss,
                quantity |-> calculate_position_size(symbol, entry_price, stop_loss)]
    /\ UNCHANGED <<ledgerVars, svcVars, boot, entry_policy, riskVars, session_valid,
                   queueVars, cyc, wdVars>>

(***************************************************************************)
(* lot_manager.check_risk_limits                                           *)
(***************************************************************************)
MaxDailyLoss == 5000

MarginOpenOnFailure(required_amount, auth, margins, available) ==
    (auth /\ margins = "success") => available >= required_amount

\* _check_margin_availability. auth: kite_api._make_request found the session
\* authenticated (it raises otherwise); margins: what the request did then
\* ("success", another status, or "raise"); available: equity plus commodity
\* live balance
check_margin_availability(required_amount, auth, margins, available) ==
    auth /\ margins = "success" /\ available >= required_amount

check_risk_limits(quantity, price, pnl, auth, margins, available) ==
    LET position_value == quantity * price
    IN IF position_value > MaxPositionSize THEN FALSE
       ELSE IF pnl < 0 - MaxDailyLoss THEN FALSE
       ELSE check_margin_availability(position_value, auth, margins, available)

\* a call of check_risk_limits
CheckRiskLimits(quantity, price, net_ok, margins, equity, commodity) ==
    /\ LET auth == IsAuthenticated(access_token, session_valid, net_ok)
       IN calc' = [op |-> "risk", quantity |-> quantity, price |-> price,
                   daily_pnl |-> daily_pnl, auth |-> auth,
                   margins |-> IF auth THEN margins ELSE "raise",
                   available |-> equity + commodity,
                   ret |-> check_risk_limits(quantity, price, daily_pnl, auth,
                                             margins, equity + commodity)]
    /\ UNCHANGED <<ledgerVars, svcVars, boot, entry_policy, riskVars, session_valid,
                   queueVars, cyc, wdVars>>

(***************************************************************************)
(* lot_manager.update_unrealized_pnl: the pass over open_positions         *)
(***************************************************************************)
\* line 165, for ... in self.open_positions.items(): the iterator is
\* created. used: the size of the dictionary then; n: the entries yielded;
\* last: the registration of the entry yielded last (the dictionary keeps
\* its entries in the order they were registered in)
UnrealizedStart ==
    /\ calc.op = "mtm" => calc.pc = "done"
    /\ calc' = [op |-> "mtm", pc |-> "next",
                used |-> Cardinality(DOMAIN open_positions), n |-> 0,
                last |-> 0, cur |-> PositionId("NIFTY", 0),
                pos |-> IdleFrame.pos, pnls |-> [k \in {} |-> 0],
                fault |-> "none", ret |-> [k \in {} |-> 0]]
    /\ UNCHANGED <<ledgerVars, svcVars, boot, entry_policy, riskVars, session_valid,
                   queueVars, cyc, wdVars>>

\* line 165, the iterator's next. A dictionary whose size is not the one
\* the iterator was created with raises RuntimeError, which the except of
\* line 185 turns into the return of an empty map. An entry found after as
\* many entries were yielded as the dictionary had raises too in an
\* interpreter that checks for it (strict) and is yielded in one that does
\* not. With no entry left the pass returns position_pnls (line 183)
UnrealizedNext(strict) ==
    /\ calc.op = "mtm"
    /\ calc.pc = "next"
    /\ LET rest == {id \in DOMAIN open_positions :
                       open_positions[id].serial > calc.last}
           id == CHOOSE i \in rest :
                    \A j \in rest :
                       open_positions[i].serial <= open_positions[j].serial
       IN calc' =
             IF \/ Cardinality(DOMAIN open_positions) # calc.used
                \/ rest # {} /\ calc.n = calc.used /\ strict
             THEN [calc EXCEPT !.pc = "done", !.fault = "iter"]
             ELSE IF rest = {}
             THEN [calc EXCEPT !.pc = "done", !.ret = calc.pnls]
             ELSE [calc EXCEPT !.pc = "fetch", !.cur = id,
                               !.pos = open_positions[id],
                               !.n = calc.n + 1,
                               !.last = open_positions[id].serial]
    /\ UNCHANGED <<ledgerVars, svcVars, boot, entry_policy, riskVars, session_valid,
                   queueVars, cyc, wdVars>>

\* lines 166-181: kite_api.get_ltp has answered. outcome "success": the
\* P&L is written to the position yielded (the entry of open_positions
\* when it is still the registration that was yielded) and to
\* position_pnls; "error": the position is skipped; "raise": the except
\* of line 185 returns an empty map
UnrealizedFetch(outcome, ltp) ==
    /\ calc.op = "mtm"
    /\ calc.pc = "fetch"
    /\ LET p == calc.pos
           unrealized_pnl == Pnl(p.order_type, p.entry_price, ltp, p.quantity)
           held == /\ calc.cur \in DOMAIN open_positions
                   /\ open_positions[calc.cur].serial = p.serial
       IN /\ calc' =
                IF outcome = "raise"
                THEN [calc EXCEPT !.pc = "done", !.fault = "fetch"]
                ELSE IF outcome = "error"
                THEN [calc EXCEPT !.pc = "next"]
                ELSE [calc EXCEPT
                         !.pc = "next",
                         !.pnls = [k \in (DOMAIN calc.pnls) \cup {calc.cur} |->
                                      IF k = calc.cur THEN unrealized_pnl
                                      ELSE calc.pnls[k]]]
          /\ open_positions' =
                IF outcome = "success" /\ held
                THEN [open_positions EXCEPT
                         ![calc.cur].unrealized_pnl = unrealized_pnl]
                ELSE open_positions
    /\ UNCHANGED <<daily_pnl, now, closer, closed, nCloses, nAdds, svcVars, boot,
                   entry_policy, riskVars, session_valid, queueVars, cyc, wdVars>>

(***************************************************************************)
(* config.py / main.py: validation and main()                              *)
(***************************************************************************)
\* the configuration loaded from the environment: whether KITE_API_KEY,
\* KITE_API_SECRET and TELEGRAM_BOT_TOKEN are set, and where main() is
ConfiguredBoot ==
    [pc |-> "main", api_key |-> TRUE, api_secret |-> TRUE, bot_token |-> TRUE,
     looped |-> FALSE, code |-> 0]

ValidateKiteOnly(b) == b.api_key /\ b.api_secret

\* Config.validate: all(field for field in required_fields)
Validate(b) == b.api_key /\ b.api_secret /\ b.bot_token

\* main, lines 154-155, and initialize_bot, lines 25-31: validation fails,
\* initialize_bot returns False and main calls sys.exit(1); SystemExit is
\* not an Exception, so line 177 does not catch it and the finally block runs
MainValidate ==
    /\ boot.pc = "main"
    /\ boot' = IF Validate(boot)
               THEN [boot EXCEPT !.pc = "start_watchdog"]
               ELSE [boot EXCEPT !.pc = "stop_watchdog", !.code = 1]
    /\ UNCHANGED <<ledgerVars, svcVars, calc, entry_policy, riskVars, session_valid,
                   queueVars, cyc, wdVars>>

\* initialize_bot, line 40: watchdog.start()
MainStartWatchdog ==
    /\ boot.pc = "start_watchdog"
    /\ StartCall("watchdog")
    /\ boot' = [boot EXCEPT !.pc = "start_refresher"]

\* initialize_bot, lines 44-47: auto_refresher.start(), return True
MainStartRefresher ==
    /\ boot.pc = "start_refresher"
    /\ StartCall("refresher")
    /\ boot' = [boot EXCEPT !.pc = "loop"]

\* main, lines 161-175: one round of the main loop, or Ctrl+C ending it
MainLoop(interrupt) ==
    /\ boot.pc = "loop"
    /\ boot' = IF interrupt
               THEN [boot EXCEPT !.pc = "stop_watchdog", !.looped = TRUE]
               ELSE [boot EXCEPT !.looped = TRUE]
    /\ UNCHANGED <<ledgerVars, svcVars, calc, entry_policy, riskVars, session_valid,
                   queueVars, cyc, wdVars>>

\* main, lines 184-185, the finally block: watchdog.stop(), then
\* auto_refresher.stop(); a stop() of a service that is not running returns
\* at once
MainStop(s, next) ==
    /\ boot.pc = "stop_" \o s
    /\ stopper.pc = "idle"
    /\ boot' = [boot EXCEPT !.pc = next]
    /\ IF is_running[s]
       THEN StopCall(s)
       ELSE UNCHANGED <<ledgerVars, svcVars, calc, entry_policy, riskVars,
                        session_valid, queueVars, cyc, wdVars>>

\* main, lines 186-187: the process ends once the last stop() has returned
MainExit ==
    /\ boot.pc = "exit"
    /\ stopper.pc = "idle"
    /\ boot' = [boot EXCEPT !.pc = "exited"]
    /\ UNCHANGED <<ledgerVars, svcVars, calc, entry_policy, riskVars, session_valid,
                   queueVars, cyc, wdVars>>

\* a step of main()
MainStep ==
    \/ MainValidate
    \/ MainStartWatchdog
    \/ MainStartRefresher
    \/ \E interrupt \in BOOLEAN : MainLoop(interrupt)
    \/ MainStop("watchdog", "stop_refresher")
    \/ MainStop("refresher", "exit")
    \/ MainExit

AllIdle == \A t \in Closers : closer[t].pc = "idle"


\* the state after the modules are imported, main() in state b
InitWith(b) ==
    /\ open_positions = <<>>
    /\ daily_pnl = 0
    /\ now = 0
    /\ closer = [t \in Closers |-> IdleFrame]
    /\ closed = <<>>
    /\ nCloses = 0
    /\ nAdds = 0
    /\ entry_policy \in {<<"MIS", "MARKET">>, <<"NRML", "MARKET">>, <<"MIS", "LIMIT">>}
    /\ trade_count = [s \in Symbols |-> 0]
    /\ global_exposure = 0
    /\ session_valid \in BOOLEAN
    /\ queue = <<>>
    /\ nextUid = 1
    /\ placedCount = <<>>
    /\ cyc = [c \in Cycles |-> IdleCycle]
    /\ wd = IdleWd
    /\ fl = IdleFlush
    /\ api_status = "UNKNOWN"
    /\ lastTick = [nse |-> TRUE, kite |-> "UNKNOWN", flushed |-> FALSE,
                   failed |-> FALSE, auth |-> FALSE, margins |-> "none"]
    /\ is_running = [s \in Services |-> FALSE]
    /\ thread = [s \in Services |-> [t \in Threads |-> "none"]]
    /\ stopper = IdleStopper
    /\ system_status = "UNKNOWN"
    /\ trading_status = "UNKNOWN"
    /\ alerts = <<>>
    /\ access_token = 1
    /\ mon = [by |-> "none", valid |-> FALSE, refreshed |-> FALSE, log |-> "none",
              ret |-> FALSE, notified |-> FALSE, tok0 |-> 0, tok1 |-> 0]
    /\ calc = [op |-> "none"]
    /\ boot = b

Init == InitWith(ConfiguredBoot)

\* the ledger driven by one thread: a call returns before the next starts
LedgerNext ==
    \/ \E s \in LedgerSymbols, q \in Quantities, p \in EntryPrices, o \in OrderTypes :
          AllIdle /\ AddPosition(s, q, p, o)
    \/ \E id \in PositionIds, p \in ExitPrices : AllIdle /\ RemoveCheck(1, id, p)
    \/ RemoveRead(1)
    \/ RemoveLoad(1)
    \/ RemoveStore(1)
    \/ RemoveDel(1)
    \/ AllIdle /\ Tick

SpecLedger == Init /\ [][LedgerNext]_vars

\* remove_position called from two threads
CloseRaceNext ==
    \/ \E s \in LedgerSymbols, q \in Quantities, p \in EntryPrices, o \in OrderTypes :
          AddPosition(s, q, p, o)
    \/ \E t \in Closers, id \in PositionIds, p \in ExitPrices : RemoveCheck(t, id, p)
    \/ \E t \in Closers : RemoveRead(t)
    \/ \E t \in Closers : RemoveLoad(t)
    \/ \E t \in Closers : RemoveStore(t)
    \/ \E t \in Closers : RemoveDel(t)
    \/ Tick

SpecCloseRace == Init /\ [][CloseRaceNext]_vars

\* remove_position called from two threads, and reset_daily_pnl
DailyNext ==
    \/ \E s \in LedgerSymbols, q \in Quantities, p \in EntryPrices :
          AddPosition(s, q, p, "BUY")
    \/ \E t \in Closers, id \in PositionIds : RemoveCheck(t, id, 18600)
    \/ \E t \in Closers : RemoveRead(t)
    \/ \E t \in Closers : RemoveLoad(t)
    \/ \E t \in Closers : RemoveStore(t)
    \/ \E t \in Closers : RemoveDel(t)
    \/ Tick
    \/ ResetDailyPnl

SpecDaily == Init /\ [][DailyNext]_vars

\* one decision cycle thread and the watchdog, one operation at a time
Next ==
    \/ \E s \in Symbols, h \in Times, sl \in Slopes, a \in BOOLEAN,
          oi \in BOOLEAN, f \in FutPrices, l \in Lots :
          /\ wd.pc = "idle"
          /\ \A c \in Cycles : cyc[c].pc = "idle"
          /\ RunOnceGates(1, s, h, sl, a, oi, f, l)
    \/ \E accept \in BOOLEAN : RunOncePlace(1, accept)
    \/ RunOnceRegister(1)
    \/ \E net_ok \in BOOLEAN, m \in {"success", "error", "raise"} :
          /\ wd.pc = "idle"
          /\ \A c \in Cycles : cyc[c].pc = "idle"
          /\ WdProbe(TRUE, net_ok, m)
    \/ FlushStart
    \/ \E accept \in BOOLEAN : FlushItem(accept)
    \/ FlushEnd
    \/ WdStatus
    \/ EnvSession

Spec == Init /\ [][Next]_vars

\* run_once called from two threads
CycleRaceNext ==
    \/ \E c \in Cycles, s \in {"NIFTY"}, h \in {570, 915},
          f \in FutPrices, l \in Lots :
          RunOnceGates(c, s, h, 2, TRUE, TRUE, f, l)
    \/ \E c \in Cycles, accept \in BOOLEAN : RunOncePlace(c, accept)
    \/ \E c \in Cycles : RunOnceRegister(c)
    \/ EnvSession

SpecCycleRace == Init /\ [][CycleRaceNext]_vars

\* the decision cycle thread and the watchdog thread, interleaved
FlushRaceNext ==
    \/ \E s \in {"NIFTY"}, h \in {570, 915},
          f \in FutPrices, l \in Lots :
          RunOnceGates(1, s, h, 2, TRUE, TRUE, f, l)
    \/ \E accept \in BOOLEAN : RunOncePlace(1, accept)
    \/ RunOnceRegister(1)
    \/ \E net_ok \in BOOLEAN, m \in {"success", "error", "raise"} :
          WdProbe(TRUE, net_ok, m)
    \/ FlushStart
    \/ \E accept \in BOOLEAN : FlushItem(accept)
    \/ FlushEnd
    \/ WdStatus
    \/ EnvSession

SpecFlushRace == Init /\ [][FlushRaceNext]_vars

\* the decision cycle thread alone, one cycle after another
GatesNext ==
    \/ \E s \in Symbols, h \in Times, sl \in Slopes, a \in BOOLEAN,
          oi \in BOOLEAN, f \in FutPrices, l \in Lots :
          RunOnceGates(1, s, h, sl, a, oi, f, l)
    \/ \E accept \in BOOLEAN : RunOncePlace(1, accept)
    \/ RunOnceRegister(1)
    \/ EnvSession

SpecGates == Init /\ [][GatesNext]_vars

\* the entry policy plays no part in the services
ServiceInit == Init /\ entry_policy = <<"MIS", "MARKET">>

\* the watchdog started once and left running: the loop thread and the
\* checks with all their outcomes, the market-data provider answering
HealthNext ==
    \/ Start("watchdog")
    \/ \E t \in Threads : LoopTest("watchdog", t)
    \/ \E t \in Threads : LoopWake("watchdog", t)
    \/ \E t \in Threads : LoopRaise("watchdog", t)
    \/ \E t \in Threads, cpu \in CpuReadings, mem \in {50},
          disk \in {50}, raised \in BOOLEAN, raising \in SUBSET {1, 2} :
          CheckSystem(t, cpu, mem, disk, raised, raising)
    \/ \E t \in Threads, failed \in BOOLEAN, raised \in BOOLEAN,
          raising \in SUBSET {1, 2} :
          CheckTrading(t, failed, raised, raising)
    \/ \E t \in Threads, net_ok \in BOOLEAN, m \in {"success", "error", "raise"},
          flush_raises \in BOOLEAN, ok \in SUBSET (1..Len(queue)),
          outer \in BOOLEAN :
          CheckApi(t, TRUE, net_ok, m, flush_raises, ok, outer)
    \/ ClearAlerts
    \/ EnvSession

\* a step of the watchdog's loop thread t
HealthStep(t) ==
    \/ LoopTest("watchdog", t)
    \/ LoopWake("watchdog", t)
    \/ \E cpu \in CpuReadings, mem \in {50}, disk \in {50},
          raised \in BOOLEAN, raising \in SUBSET {1, 2} :
          CheckSystem(t, cpu, mem, disk, raised, raising)
    \/ \E failed \in BOOLEAN, raised \in BOOLEAN, raising \in SUBSET {1, 2} :
          CheckTrading(t, failed, raised, raising)
    \/ \E net_ok \in BOOLEAN, m \in {"success", "error", "raise"},
          flush_raises \in BOOLEAN, ok \in SUBSET (1..Len(queue)),
          outer \in BOOLEAN :
          CheckApi(t, TRUE, net_ok, m, flush_raises, ok, outer)
    \/ LoopRaise("watchdog", t)

\* a thread that can run does run
SpecHealth ==
    /\ ServiceInit
    /\ [][HealthNext]_vars
    /\ \A t \in Threads : WF_vars(HealthStep(t))

\* the step of loop thread t of service s, the checks finding nothing to
\* report, the market-data provider answering or not
ThreadStep(s, t) ==
    \/ LoopTest(s, t)
    \/ LoopWake(s, t)
    \/ LoopRaise(s, t)
    \/ /\ s = "watchdog"
       /\ \/ CheckSystem(t, 50, 50, 50, FALSE, {})
          \/ CheckTrading(t, FALSE, FALSE, {})
          \/ \E reachable \in BOOLEAN, net_ok \in BOOLEAN :
                CheckApi(t, reachable, net_ok, "success", FALSE, {}, FALSE)
    \/ /\ s = "refresher"
       /\ \E net_ok \in BOOLEAN : RefreshTick(t, net_ok, net_ok)

\* start() and stop() called from the main thread, and the loop threads.
\* The two services have no state in common in start, stop and the loop,
\* so a behaviour runs one of them
ServiceNext ==
    \/ \E s \in Services :
          (\A o \in Services \ {s} : Created(o) = {}) /\ Start(s)
    \/ \E s \in Services : StopBegin(s)
    \/ StopJoined
    \/ StopTimeout
    \/ \E s \in Services, t \in Threads : ThreadStep(s, t)

\* a thread that can run does run; a join ends
SpecService ==
    /\ ServiceInit
    /\ [][ServiceNext]_vars
    /\ \A s \in Services, t \in Threads : WF_vars(ThreadStep(s, t))
    /\ WF_vars(StopJoined \/ StopTimeout)

\* the token refresher's loop, force_check, and the session changing
MonitorNext ==
    \/ Start("refresher")
    \/ StopBegin("refresher")
    \/ StopJoined
    \/ StopTimeout
    \/ \E t \in Threads : LoopTest("refresher", t)
    \/ \E t \in Threads : LoopWake("refresher", t)
    \/ \E t \in Threads : LoopRaise("refresher", t)
    \/ \E t \in Threads, net_ok \in BOOLEAN, net_ok2 \in BOOLEAN :
          RefreshTick(t, net_ok, net_ok2)
    \/ \E net_ok \in BOOLEAN, net_ok2 \in BOOLEAN : ForceCheck(net_ok, net_ok2)
    \/ EnvSession
    \/ Login
    \/ Logout

SpecMonitor == Init /\ [][MonitorNext]_vars

\* the watchdog's loop over a ledger that one trading thread opens and
\* closes positions in; the resource readings stay below their thresholds
RiskNext ==
    \/ \E s \in LedgerSymbols, q \in Quantities, p \in EntryPrices, o \in OrderTypes :
          AllIdle /\ AddPosition(s, q, p, o)
    \/ \E id \in PositionIds, p \in ExitPrices : AllIdle /\ RemoveCheck(1, id, p)
    \/ RemoveRead(1)
    \/ RemoveLoad(1)
    \/ RemoveStore(1)
    \/ RemoveDel(1)
    \/ AllIdle /\ Tick
    \/ Start("watchdog")
    \/ \E t \in Threads : LoopTest("watchdog", t)
    \/ \E t \in Threads : LoopWake("watchdog", t)
    \/ \E t \in Threads : CheckSystem(t, 50, 50, 50, FALSE, {})
    \/ \E t \in Threads, failed \in BOOLEAN, raised \in BOOLEAN :
          CheckTrading(t, failed, raised, {})
    \/ \E t \in Threads : CheckApi(t, TRUE, TRUE, "success", FALSE, {}, FALSE)
    \/ ClearAlerts

SpecRisk == ServiceInit /\ [][RiskNext]_vars

\* choose_strike for the instruments fetch_snapshot knows a strike step
\* for; snap.fut_ltp in hundredths of a point (the zero snapshot of a failed
\* fetch, 18450.50, 18487.00 and 44150.00); both directions; 09:00, the
\* first and last minute of each window, and 15:00
StrikeNext ==
    \E symbol \in {"NIFTY", "BANKNIFTY", "MIDCPNIFTY"},
       fut \in {0, 1845050, 1848700, 4415000}, above \in BOOLEAN,
       hhmm \in {540, 555, 659, 660, 779, 780, 899, 900} :
       SelectStrike(symbol, fut, above, hhmm)

SpecStrike == Init /\ [][StrikeNext]_vars

\* calculate_position_size for instruments of lot_sizes and one that is not
\* in it; entry prices and stop losses in hundredths: 5.00, 100.00, 100.05,
\* 140.00, 18400.00 and 18500.00
SizeNext ==
    \E symbol \in {"NIFTY", "BANKNIFTY", "MIDCPNIFTY", "RELIANCE"},
       entry_price \in {500, 10000, 10005, 14000, 1840000, 1850000},
       stop_loss \in {500, 10000, 10005, 14000, 1840000, 1850000} :
       SizePosition(symbol, entry_price, stop_loss)

SpecSize == Init /\ [][SizeNext]_vars

\* check_risk_limits over a ledger that one thread opens and closes
\* positions in (losing closes), with the session expiring and renewed
LimitsNext ==
    \/ \E s \in LedgerSymbols, q \in Quantities, p \in EntryPrices :
          AllIdle /\ AddPosition(s, q, p, "BUY")
    \/ \E id \in PositionIds : AllIdle /\ RemoveCheck(1, id, 18400)
    \/ RemoveRead(1)
    \/ RemoveLoad(1)
    \/ RemoveStore(1)
    \/ RemoveDel(1)
    \/ EnvSession
    \/ \E quantity \in {1, 6}, price \in {18500}, net_ok \in BOOLEAN,
          margins \in {"success", "error", "raise"},
          equity \in {5000, 10000}, commodity \in {0, 8500} :
          AllIdle /\ CheckRiskLimits(quantity, price, net_ok, margins, equity, commodity)

SpecLimits == Init /\ [][LimitsNext]_vars

\* the mark-to-market pass of the watchdog's thread while the decision
\* thread registers (one position a second) and closes positions
MarkNext ==
    \/ \E s \in LedgerSymbols, q \in Quantities, p \in EntryPrices :
          AllIdle /\ nAdds = now /\ AddPosition(s, q, p, "BUY")
    \/ \E id \in PositionIds : AllIdle /\ RemoveCheck(1, id, 18600)
    \/ RemoveRead(1)
    \/ RemoveLoad(1)
    \/ RemoveStore(1)
    \/ RemoveDel(1)
    \/ AllIdle /\ Tick
    \/ UnrealizedStart
    \/ \E strict \in BOOLEAN : UnrealizedNext(strict)
    \/ \E outcome \in {"success", "error", "raise"}, ltp \in {18400, 18600} :
          UnrealizedFetch(outcome, ltp)

SpecMark == Init /\ [][MarkNext]_vars

\* the decision cycle with the order-flow gate computed from the snapshot:
\* the cycle goes on with what its call of the gate returned
OrderFlowNext ==
    \/ \E snap \in [atm : {0, 18500}, ce0 : {0, 10, 30}, ce150 : {0, 10},
                    pe0 : {0, 10, 30}, pe150 : {0, 10}], raised \in BOOLEAN :
          cyc[1].pc = "idle" /\ OiVolumeGate(snap, raised)
    \/ \E h \in {570, 915}, sl \in Slopes, a \in BOOLEAN, f \in FutPrices, l \in {1} :
          /\ calc.op = "oi_gate"
          /\ RunOnceGates(1, "NIFTY", h, sl, a, calc.ret, f, l)
    \/ \E accept \in BOOLEAN : RunOncePlace(1, accept)
    \/ RunOnceRegister(1)
    \/ EnvSession

SpecOrderFlow == Init /\ [][OrderFlowNext]_vars

\* main() started with any combination of the three required settings
\* present or missing
StartupInit ==
    \E k \in BOOLEAN, s \in BOOLEAN, b \in BOOLEAN :
       /\ InitWith([ConfiguredBoot EXCEPT !.api_key = k, !.api_secret = s,
                                          !.bot_token = b])
       /\ entry_policy = <<"MIS", "MARKET">>

\* main() and the loop threads it starts
StartupNext ==
    \/ MainStep
    \/ StopJoined
    \/ StopTimeout
    \/ \E s \in Services, t \in Threads : ThreadStep(s, t)

\* main() goes on when it can, threads run, a join ends
SpecStartup ==
    /\ StartupInit
    /\ [][StartupNext]_vars
    /\ WF_vars(MainStep)
    /\ \A s \in Services, t \in Threads : WF_vars(ThreadStep(s, t))
    /\ WF_vars(StopJoined \/ StopTimeout)

(***************************************************************************)
(* Claims about the position ledger.                                       *)
(***************************************************************************)

\* C3: close is destructive and not repeatable. A completed close of an open
\* position returns its P&L, removes it from the open set and adds exactly
\* that P&L to the daily realized P&L; a close of the same id that follows
\* it (the id not registered again in between) returns None and leaves the
\* daily realized P&L as the first close left it.
C3_CloseNotRepeatable ==
    /\ \A i \in 1..Len(closed) :
          LET c == closed[i]
          IN /\ c.target # 0 => c.found
             /\ c.found => c.after = c.before + c.pnl
             /\ ~c.found => c.after = c.before
    /\ (AllIdle /\ Len(closed) > 0 /\ closed[Len(closed)].found)
          => \/ closed[Len(closed)].id \notin DOMAIN open_positions
             \/ open_positions[closed[Len(closed)].id].serial
                   # closed[Len(closed)].target
    /\ (/\ Len(closed) = 2
        /\ closed[1].found
        /\ closed[2].id = closed[1].id
        /\ closed[2].target \in {0, closed[1].target})
          => /\ ~closed[2].found
             /\ closed[2].after = closed[1].before + closed[1].pnl

\* C3 witness: a close that returned a non-zero P&L, then a close of the same
\* id that returned None, the daily P&L holding the first P&L
C3_Witness ==
    /\ Len(closed) = 2
    /\ closed[1].found
    /\ closed[1].pnl = 5000
    /\ closed[2].id = closed[1].id
    /\ closed[2].target = 0
    /\ ~closed[2].found
    /\ daily_pnl = 5000
    /\ AllIdle

\* C4: two concurrent closes of the same open position (both calls saw the
\* same registration under the id): at most one returns a P&L and the daily
\* realized P&L is increased exactly once, by that P&L.
C4_ConcurrentCloseOnce ==
    (/\ AllIdle
     /\ Len(closed) = 2
     /\ closed[1].t # closed[2].t
     /\ closed[1].id = closed[2].id
     /\ closed[1].target # 0
     /\ closed[1].target = closed[2].target)
       => /\ ~(closed[1].found /\ closed[2].found)
          /\ daily_pnl = closed[1].pnl + closed[2].pnl

\* C4 witness: two threads closed the same registration, one call returned
\* the P&L and the other None, and the daily realized P&L holds that P&L twice
C4_Witness ==
    /\ AllIdle
    /\ Len(closed) = 2
    /\ closed[1].t # closed[2].t
    /\ closed[1].id = closed[2].id
    /\ closed[1].target # 0
    /\ closed[1].target = closed[2].target
    /\ \E i \in 1..2 : /\ closed[i].found
                        /\ closed[i].pnl = 5000
                        /\ ~closed[3 - i].found
                        /\ closed[i].exit_price = closed[3 - i].exit_price
    /\ daily_pnl = 10000

\* C5: the P&L a close returns is (exit - entry) * quantity for a position
\* opened with BUY and (entry - exit) * quantity otherwise; BUY at 18500,
\* quantity 50, closed at 18600 gives 5000, SELL with the same numbers -5000.
C5_PnlSign ==
    \A i \in 1..Len(closed) :
       LET c == closed[i]
       IN c.found =>
            /\ c.pos.order_type \in {"BUY", "buy"}
                  => c.pnl = (c.exit_price - c.pos.entry_price) * c.pos.quantity
            /\ c.pos.order_type \notin {"BUY", "buy"}
                  => c.pnl = (c.pos.entry_price - c.exit_price) * c.pos.quantity
            /\ (c.pos.entry_price = 18500 /\ c.exit_price = 18600
                /\ c.pos.quantity = 50)
                  => c.pnl = IF c.pos.order_type = "SELL" THEN 0 - 5000 ELSE 5000

\* C5 witness: a BUY at 18500 x 50 closed at 18600 for 5000 and a SELL with
\* the same numbers closed for -5000
C5_Witness ==
    /\ Len(closed) = 2
    /\ \E i, j \in 1..2 :
          /\ closed[i].found /\ closed[j].found
          /\ closed[i].pos.order_type = "BUY" /\ closed[j].pos.order_type = "SELL"
          /\ closed[i].pos.entry_price = 18500 /\ closed[j].pos.entry_price = 18500
          /\ closed[i].exit_price = 18600 /\ closed[j].exit_price = 18600
          /\ closed[i].pos.quantity = 50 /\ closed[j].pos.quantity = 50
          /\ closed[i].pnl = 5000 /\ closed[j].pnl = 0 - 5000

(***************************************************************************)
(* Claims about exposure, the order queue and the watchdog's flush.        *)
(***************************************************************************)
Uids(orders) == {orders[i].uid : i \in 1..Len(orders)}

Elems(orders) == {orders[i] : i \in 1..Len(orders)}

Occurrences(orders, uid) == Cardinality({i \in 1..Len(orders) : orders[i].uid = uid})

\* C1: with the decision cycles run one after another, the accepted exposure
\* never exceeds GLOBAL_EXPOSURE_CAP and the accepted entries of an
\* instrument never exceed MAX_TRADES_PER_INSTRUMENT.
C1_ExposureCaps ==
    /\ global_exposure <= GLOBAL_EXPOSURE_CAP
    /\ \A s \in Symbols : trade_count[s] <= MAX_TRADES_PER_INSTRUMENT
    /\ \A c \in Cycles : cyc[c].pc \in {"place", "register"} =>
          /\ global_exposure + cyc[c].exposure <= GLOBAL_EXPOSURE_CAP
          /\ trade_count[cyc[c].symbol] < MAX_TRADES_PER_INSTRUMENT

\* C1 witness: both caps are reached and a cycle has been stopped by them
C1_Witness ==
    /\ global_exposure = GLOBAL_EXPOSURE_CAP
    /\ \E s \in Symbols : trade_count[s] = MAX_TRADES_PER_INSTRUMENT
    /\ cyc[1].pc = "idle"
    /\ cyc[1].reason = "exposure_cap"

\* C2: when two decision cycles interleave, it never happens that both pass
\* the check and both register and the global exposure or an instrument's
\* trade count ends above its cap.
C2_AtomicAuthorize ==
    ~ /\ \A c \in Cycles : cyc[c].pc = "idle" /\ cyc[c].reason = "entered"
      /\ \/ global_exposure > GLOBAL_EXPOSURE_CAP
         \/ \E s \in Symbols : trade_count[s] > MAX_TRADES_PER_INSTRUMENT

\* C2 witness: two interleaved cycles both entered NIFTY, exposure and trade
\* count above their caps
C2_Witness ==
    /\ \A c \in Cycles : cyc[c].pc = "idle" /\ cyc[c].reason = "entered"
    /\ global_exposure > GLOBAL_EXPOSURE_CAP
    /\ trade_count["NIFTY"] > MAX_TRADES_PER_INSTRUMENT

\* C6: a submit made while the session is invalid makes no broker call,
\* appends exactly one order to the queue and returns queued; a flush in which
\* the session is valid and the broker accepts at every order reports every
\* order of the queue as placed and leaves the queue empty.
C6_QueueThenFlush ==
    /\ (cyc[1].pc = "register" /\ ~cyc[1].sess) =>
          /\ cyc[1].res = "queued"
          /\ ~cyc[1].called
          /\ Len(queue) = cyc[1].qlen0 + 1
          /\ queue[Len(queue)].uid = cyc[1].uid
          /\ Occurrences(queue, cyc[1].uid) = 1
    /\ (cyc[1].pc = "register" /\ cyc[1].sess) =>
          /\ cyc[1].res = "ok"
          /\ Len(queue) = cyc[1].qlen0
    /\ (wd.pc = "status" /\ wd.flushed /\ wd.res.good = wd.res.n) =>
          /\ wd.res.ret.placed = wd.res.n
          /\ wd.res.ret.failed = 0
          /\ wd.res.ret.remaining = 0
          /\ queue = <<>>
          /\ \A u \in Uids(wd.res.snap) :
                u \in DOMAIN placedCount /\ placedCount[u] = 1

\* C6 witness: a flush that found one queued order, placed it and left the
\* queue empty
C6_Witness ==
    /\ wd.pc = "status"
    /\ wd.flushed
    /\ wd.res.n = 1
    /\ wd.res.good = 1
    /\ wd.res.ret = [placed |-> 1, failed |-> 0, remaining |-> 0]
    /\ queue = <<>>
    /\ placedCount[wd.res.snap[1].uid] = 1

\* C7: flush neither loses nor duplicates an order. When it returns, placed +
\* failed is the length of the snapshot, every failed order is in the queue
\* as it was, no placed order is in the queue, and remaining is the length of
\* the queue; and at all times every queued order is either still queued
\* (in the queue or in the rest of a snapshot) or has been placed, once.
C7_NoLossNoDuplicate ==
    /\ wd.pc = "status" /\ wd.flushed =>
          LET r == wd.res
          IN /\ r.ret.placed + r.ret.failed = r.n
             /\ r.ret.placed = Cardinality(r.placedUids)
             /\ r.ret.failed = Cardinality(r.failedOrders)
             /\ r.failedOrders \subseteq Elems(r.snap)
             /\ r.failedOrders \subseteq Elems(r.queue)
             /\ r.placedUids \cap Uids(r.queue) = {}
             /\ r.ret.remaining = Len(r.queue)
    /\ \A u \in 1..(nextUid - 1) :
          Occurrences(queue, u)
             + Occurrences(Pending(fl.snap, queue, fl.i), u)
             + (IF u \in DOMAIN placedCount THEN placedCount[u] ELSE 0) = 1

\* C7 witness: a flush over two orders that placed one and put one back
C7_Witness ==
    /\ wd.pc = "status"
    /\ wd.flushed
    /\ wd.res.n = 2
    /\ wd.res.ret.placed = 1
    /\ wd.res.ret.failed = 1
    /\ Len(wd.res.queue) = 1

\* C8: a flush of an empty queue returns placed 0, failed 0, remaining 0,
\* makes no broker call and leaves the queue empty, every time.
C8_EmptyFlush ==
    (wd.pc = "status" /\ wd.flushed /\ wd.res.n = 0) =>
       /\ wd.res.ret = [placed |-> 0, failed |-> 0, remaining |-> 0]
       /\ wd.res.calls = 0
       /\ queue = <<>>
       /\ wd.res.placedUids = {}

\* C8 witness: a flush of an empty queue, in the tick after a tick that
\* flushed too
C8_Witness ==
    /\ wd.pc = "status"
    /\ wd.flushed
    /\ wd.res.n = 0
    /\ wd.res.ret.remaining = 0
    /\ lastTick.flushed

\* C9: a flush pass works through the orders of its snapshot only: it makes
\* at most one attempt per order of the snapshot, and an order that enters
\* the queue during the pass (from a submit, or put back after it failed) is
\* in the queue when the pass returns, not attempted again in that pass.
C9_SnapshotOnly ==
    /\ fl.i <= Len(fl.snap)
    /\ fl.calls <= fl.i
    /\ fl.placed + fl.failed = fl.i
    /\ wd.pc = "status" /\ wd.flushed =>
          LET r == wd.res
          IN /\ r.processed = r.n
             /\ r.calls <= r.n
             /\ r.placedUids \cup {o.uid : o \in r.failedOrders} = Uids(r.snap)
             /\ Len(r.queue) = r.ret.failed + r.enq

\* C9 witness: a pass over a snapshot of one order that failed and was put
\* back, during which a submit queued another order
C9_Witness ==
    /\ wd.pc = "status"
    /\ wd.flushed
    /\ wd.res.n = 1
    /\ wd.res.enq = 1
    /\ wd.res.ret.failed = 1
    /\ wd.res.processed = 1
    /\ Len(wd.res.queue) = 2

GatesPass(symbol, hhmm, slope, oi, strike, exposure) ==
    /\ hhmm < ForceExit
    /\ hhmm < LastEntry
    /\ strike >= 0
    /\ slope >= LrSlopeMin
    /\ oi
    /\ OptScore >= (IF Vix >= VixHigh THEN OptionConfirmMinHighVix
                    ELSE OptionConfirmMin)
    /\ can_open(symbol, exposure)
    /\ entry_policy = <<"MIS", "MARKET">>

\* the step leaves the queue, the broker and the exposure counters alone
NoEntryStep ==
    /\ queue' = queue
    /\ nextUid' = nextUid
    /\ placedCount' = placedCount
    /\ trade_count' = trade_count
    /\ global_exposure' = global_exposure

\* C17: a decision cycle run at or after the force-exit time ends at the
\* first gate with the force-exit reason, whatever the other inputs are:
\* the market snapshot is not fetched, no order is submitted or queued, the
\* exposure counters stay as they are.
C17_ForceExitFirst ==
    [][\A c \in Cycles :
          (cyc[c].pc = "idle" /\ cyc'[c] # cyc[c]) =>
             \A s \in Symbols, h \in Times, sl \in Slopes, a \in BOOLEAN,
                oi \in BOOLEAN, f \in FutPrices, l \in Lots :
                (h >= ForceExit /\ RunOnceGates(c, s, h, sl, a, oi, f, l)) =>
                   /\ cyc'[c].pc = "idle"
                   /\ cyc'[c].reason = "force_exit"
                   /\ ~cyc'[c].fetched
                   /\ NoEntryStep]_vars

\* C17 witness: a cycle stopped at the force-exit gate, nothing fetched,
\* while entries made earlier are on the counters
C17_Witness ==
    /\ cyc[1].pc = "idle"
    /\ cyc[1].reason = "force_exit"
    /\ ~cyc[1].fetched
    /\ global_exposure > 0

\* C18: a cycle in which a gate fails ends there: it submits and queues no
\* order and leaves the exposure and trade counters as they are; orders and
\* counters change only in a cycle that passed every gate.
C18_NoPartialEntry ==
    /\ [](\A c \in Cycles : cyc[c].pc \in {"place", "register"} =>
                               cyc[c].reason = "pass")
    /\ [][/\ \A c \in Cycles :
               (cyc[c].pc = "idle" /\ cyc'[c] # cyc[c]) =>
                  \A s \in Symbols, h \in Times, sl \in Slopes, a \in BOOLEAN,
                     oi \in BOOLEAN, f \in FutPrices, l \in Lots :
                     (/\ RunOnceGates(c, s, h, sl, a, oi, f, l)
                      /\ ~GatesPass(s, h, sl, oi,
                                    choose_strike(f, IF a THEN "BULL" ELSE "BEAR", h),
                                    EstPremium * l)) =>
                        /\ cyc'[c].pc = "idle"
                        /\ cyc'[c].reason \notin {"pass", "none", "entered"}
                        /\ NoEntryStep
          /\ (nextUid' # nextUid \/ trade_count' # trade_count
                 \/ global_exposure' # global_exposure) =>
                \E c \in Cycles : /\ cyc[c].pc \in {"place", "register"}
                                  /\ cyc[c].reason = "pass"]_vars

\* C18 witness: a cycle stopped by the order-flow gate, after an earlier
\* entry; the counters hold that entry only
C18_Witness ==
    /\ cyc[1].pc = "idle"
    /\ cyc[1].reason = "oi_volume"
    /\ global_exposure = EstPremium
    /\ nextUid = 1

\* C19: the last-entry cutoff belongs to the first gate: a cycle run at or
\* after the cutoff (and before the force-exit time) is rejected with the
\* cutoff reason, whatever the trend and order-flow inputs are.
C19_CutoffBeforeTrend ==
    [][\A c \in Cycles :
          (cyc[c].pc = "idle" /\ cyc'[c] # cyc[c]) =>
             \A s \in Symbols, h \in Times, sl \in Slopes, a \in BOOLEAN,
                oi \in BOOLEAN, f \in FutPrices, l \in Lots :
                (/\ h >= LastEntry
                 /\ h < ForceExit
                 /\ RunOnceGates(c, s, h, sl, a, oi, f, l)) =>
                   cyc'[c].reason = "no_new_entries"]_vars

\* C19 witness: a cycle rejected with the cutoff reason
C19_Witness ==
    /\ cyc[1].pc = "idle"
    /\ cyc[1].reason = "no_new_entries"

\* C20: the decision cycle submits or queues an order only when the entry
\* policy is product MIS with order type MARKET; under any other policy
\* every cycle is rejected, and no exposure is registered.
C20_PolicyOnly ==
    /\ \A c \in Cycles : cyc[c].pc \in {"place", "register"} =>
          entry_policy = <<"MIS", "MARKET">>
    /\ entry_policy # <<"MIS", "MARKET">> =>
          /\ queue = <<>>
          /\ nextUid = 1
          /\ placedCount = <<>>
          /\ global_exposure = 0
          /\ \A s \in Symbols : trade_count[s] = 0
          /\ \A c \in Cycles : cyc[c].reason \notin {"pass", "entered", "raised"}
    /\ \A i \in 1..Len(queue) :
          queue[i].product = "MIS" /\ queue[i].order_type = "MARKET"

\* C20 witness: under the policy MIS + LIMIT a cycle that passed every other
\* gate was rejected at the policy gate
C20_Witness ==
    /\ entry_policy = <<"MIS", "LIMIT">>
    /\ cyc[1].pc = "idle"
    /\ cyc[1].reason = "policy"
    /\ queue = <<>>
    /\ global_exposure = 0

(***************************************************************************)
(* Claims about the watchdog and the token refresher.                      *)
(***************************************************************************)
\* C11: in every state of the watchdog the overall status is HEALTHY exactly
\* when all three axes are in the good set (HEALTHY, CONNECTED,
\* NOT_AUTHENTICATED, ACTIVE, IDLE), ERROR exactly when some axis is ERROR,
\* and DEGRADED in every other case, the initial UNKNOWN axes included.
C11_OverallStatus ==
    LET overall == OverallStatus(system_status, api_status, trading_status)
        Axes == {system_status, api_status, trading_status}
        GoodStatuses == {"HEALTHY", "CONNECTED", "NOT_AUTHENTICATED", "ACTIVE", "IDLE"}
    IN /\ overall \in {"HEALTHY", "ERROR", "DEGRADED"}
       /\ overall = "HEALTHY" <=> Axes \subseteq GoodStatuses
       /\ overall = "ERROR" <=> "ERROR" \in Axes
       /\ overall = "DEGRADED" <=>
             ~(Axes \subseteq GoodStatuses) /\ "ERROR" \notin Axes
       /\ "UNKNOWN" \in Axes /\ "ERROR" \notin Axes => overall = "DEGRADED"

\* C11 witness: after a pass with the session not authenticated, all axes
\* good and the overall status HEALTHY
C11_Witness ==
    /\ system_status = "HEALTHY"
    /\ trading_status = "IDLE"
    /\ api_status = "CONNECTED"
    /\ lastTick.kite = "NOT_AUTHENTICATED"
    /\ \E t \in Threads : thread["watchdog"][t] = "sleep"
    /\ OverallStatus(system_status, api_status, trading_status) = "HEALTHY"

\* C12: while the watchdog is running no outcome of a pass ends the loop:
\* the thread never terminates, every pass (also one that raised, breached a
\* threshold or had a failing probe, ledger query or flush) is followed by
\* the sleep, and every sleep by another pass.
C12_LoopNeverDies ==
    /\ [](\A t \in Threads : thread["watchdog"][t] # "done")
    /\ [][\A t \in Threads :
            (thread["watchdog"][t] \in Phases
                /\ thread'["watchdog"][t] # thread["watchdog"][t]) =>
               thread'["watchdog"][t] \in {"trading", "api", "sleep"}]_vars
    /\ \A t \in Threads :
          /\ (thread["watchdog"][t] \in Phases) ~> (thread["watchdog"][t] = "sleep")
          /\ (thread["watchdog"][t] = "sleep") ~> (thread["watchdog"][t] = "system")

\* C12 witness: the loop thread asleep after a pass in which the resource
\* probe and the API probe failed and a threshold alert was raised earlier
C12_Witness ==
    /\ is_running["watchdog"]
    /\ \E t \in Threads : thread["watchdog"][t] = "sleep"
    /\ system_status = "ERROR"
    /\ api_status = "ERROR"
    /\ alerts # <<>>

\* C13: an alert is recorded and every registered callback is called with
\* it, also when a callback raises; the check that raised the alert goes on
\* to set its status and the pass goes on to the next check.
C13_CallbackIsolation ==
    /\ [](\A i \in 1..Len(alerts) :
             alerts[i].notified = {Callbacks[k] : k \in 1..Len(Callbacks)})
    /\ [][\A t \in Threads :
            (thread["watchdog"][t] = "system" /\ thread'["watchdog"][t] # "system") =>
               \A cpu \in CpuReadings, mem \in {50}, disk \in {50},
                  raising \in SUBSET {1, 2} :
                  (/\ cpu > CpuThreshold
                   /\ CheckSystem(t, cpu, mem, disk, FALSE, raising)) =>
                     /\ Len(alerts') = Len(alerts) + 1
                     /\ alerts'[Len(alerts')].raised = raising
                     /\ system_status' = "DEGRADED"
                     /\ thread'["watchdog"][t] = "trading"]_vars

\* C13 witness: an alert recorded with the first callback raising and both
\* callbacks called, the pass at its next check
C13_Witness ==
    /\ Len(alerts) = 1
    /\ alerts[1].raised = {1}
    /\ alerts[1].notified = {1, 2}
    /\ system_status = "DEGRADED"
    /\ \E t \in Threads : thread["watchdog"][t] = "trading"

\* C14: whatever start() and stop() calls are made, at most one loop thread
\* of a service is alive and running passes at any time.
C14_OneLoopThread ==
    \A s \in Services :
       Cardinality({t \in Threads : thread[s][t] \in Phases}) <= 1

\* C14 witness: after start, a stop whose join timed out and a second start,
\* two loop threads of the watchdog are inside a pass
C14_Witness ==
    /\ is_running["watchdog"]
    /\ stopper.pc = "idle"
    /\ thread["watchdog"][1] \in {"system", "trading", "api"}
    /\ thread["watchdog"][2] \in {"system", "trading", "api"}

\* C15: once stop() has cleared is_running and no start() follows, a loop
\* thread starts no pass after its sleep has ended, every loop thread ends,
\* and stop() returns.
C15_StopEndsLoop ==
    /\ [][\A s \in Services, t \in Threads :
            (~is_running[s] /\ ~is_running'[s] /\ thread[s][t] \in {"sleep", "test"}) =>
               thread'[s][t] \in {"sleep", "test", "done"}]_vars
    /\ \A s \in Services :
          (<>[](~is_running[s])) => <>[](Live(s) = {})
    /\ (stopper.pc = "join") ~> (stopper.pc = "idle")

\* C15 witness: the watchdog stopped, stop() returned, its loop thread ended
C15_Witness ==
    /\ ~is_running["watchdog"]
    /\ stopper.pc = "idle"
    /\ Created("watchdog") # {}
    /\ Live("watchdog") = {}

\* C16: a token check of the refresher (a pass of its loop or force_check)
\* never changes the stored access token and never changes whether the
\* session is valid; with an invalid token refresh_token returns False and
\* the outcome logged is that manual intervention is required.
C16_MonitorOnlyReports ==
    /\ [](/\ mon.tok1 = mon.tok0
          /\ ~mon.refreshed
          /\ mon.by # "none" =>
                /\ ~mon.valid => (mon.log = "manual" /\ ~mon.ret)
                /\ mon.valid => (mon.log = "none" /\ mon.ret))
    /\ [][mon' # mon =>
             /\ access_token' = access_token
             /\ session_valid' = session_valid
             /\ mon'.tok0 = access_token]_vars

\* C16 witness: a pass of the loop found the session invalid, the token is
\* the one stored before and the session is still invalid
C16_Witness ==
    /\ mon.by = "loop"
    /\ ~mon.valid
    /\ mon.log = "manual"
    /\ mon.tok0 = 2
    /\ access_token = 2
    /\ ~session_valid

(***************************************************************************)
(* Claims about failures, strikes, sizing, the daily P&L and startup.      *)
(***************************************************************************)
\* C21: a failure raised below run_once (the broker failing the order
\* placement, a fetch failing) is caught inside run_once and turned into a
\* rejection of that cycle: no cycle ever ends by an exception leaving
\* run_once.
C21_FailureStaysLocal ==
    \A c \in Cycles : cyc[c].reason # "raised"

\* C21 witness: a cycle passed every gate, the broker was called with a
\* valid session and failed, and the exception ended run_once: no
\* rejection was notified, nothing was queued or registered
C21_Witness ==
    /\ cyc[1].pc = "idle"
    /\ cyc[1].reason = "raised"
    /\ cyc[1].called
    /\ session_valid
    /\ queue = <<>>
    /\ \A s \in Symbols : trade_count[s] = 0

\* C22: for every underlying price, with direction BULL the strike chosen
\* in the morning window is strictly above the 50-point ceiling of the
\* underlying and the one chosen in the afternoon window is at or below its
\* 50-point floor; with direction BEAR the morning strike is strictly below
\* the floor and the afternoon strike is at or above the underlying.
C22_StrikeSide ==
    calc.op = "strike" =>
       LET floor == (calc.fut \div 5000) * 50
           ceiling == ((calc.fut + 4999) \div 5000) * 50
           morning == MorningStart <= calc.hhmm /\ calc.hhmm < MorningEnd
           afternoon == MiddayEnd <= calc.hhmm /\ calc.hhmm < AfternoonEnd
       IN /\ (calc.direction = "BULL" /\ morning) => calc.strike > ceiling
          /\ (calc.direction = "BULL" /\ afternoon) => calc.strike <= floor
          /\ (calc.direction = "BEAR" /\ morning) => calc.strike < floor
          /\ (calc.direction = "BEAR" /\ afternoon) => calc.strike * 100 >= calc.fut

\* C22 witness: underlying 18450.50, BEAR, in the afternoon window: the
\* strike chosen is 18450, below the underlying
C22_Witness ==
    /\ calc.op = "strike"
    /\ calc.fut = 1845050
    /\ calc.direction = "BEAR"
    /\ calc.hhmm = 780
    /\ calc.strike = 18450

\* C23: the three windows do not overlap; for a time outside all of them
\* choose_strike returns -1 and the cycle is ended without an order; for a
\* time inside a window the strike is a positive multiple of the step 50.
C23_WindowsAndNone ==
    calc.op = "strike" =>
       LET morning == MorningStart <= calc.hhmm /\ calc.hhmm < MorningEnd
           midday == MorningEnd <= calc.hhmm /\ calc.hhmm < MiddayEnd
           afternoon == MiddayEnd <= calc.hhmm /\ calc.hhmm < AfternoonEnd
       IN /\ ~(morning /\ midday) /\ ~(midday /\ afternoon) /\ ~(morning /\ afternoon)
          /\ ~(morning \/ midday \/ afternoon) =>
                (calc.strike = 0 - 1 /\ calc.rejected)
          /\ (morning \/ midday \/ afternoon) =>
                (calc.strike > 0 /\ calc.strike % 50 = 0)

\* C23 witness: the zero snapshot of a failed fetch at midday: the strike
\* chosen is 0 and line 95 lets the cycle go on
C23_Witness ==
    /\ calc.op = "strike"
    /\ calc.fut = 0
    /\ calc.hhmm = 660
    /\ calc.strike = 0
    /\ ~calc.rejected

\* C24: every strike chosen is a multiple of the strike step of the
\* instrument traded (100 for BANKNIFTY, 25 for MIDCPNIFTY, 50 otherwise),
\* the step fetch_snapshot used for the at-the-money strike.
C24_InstrumentStep ==
    (calc.op = "strike" /\ calc.strike >= 0) =>
       /\ calc.strike % StrikeStep(calc.symbol) = 0
       /\ calc.atm % StrikeStep(calc.symbol) = 0

\* C24 witness: BANKNIFTY at 44150.00 at midday: the snapshot's
\* at-the-money strike is 44200, the strike chosen is 44150
C24_Witness ==
    /\ calc.op = "strike"
    /\ calc.symbol = "BANKNIFTY"
    /\ calc.fut = 4415000
    /\ calc.hhmm = 660
    /\ calc.atm = 44200
    /\ calc.strike = 44150

\* C27: when a required setting (API key, API secret or bot token) is
\* missing at startup, no loop thread of the watchdog or of the token
\* refresher is ever started, main() never enters its main loop, and the
\* process exits with code 1.
C27_NoStartWhenInvalid ==
    LET missing == ~boot.api_key \/ ~boot.api_secret \/ ~boot.bot_token
    IN /\ [](missing =>
               /\ \A s \in Services : ~is_running[s] /\ Created(s) = {}
               /\ ~boot.looped
               /\ boot.pc \notin {"start_watchdog", "start_refresher", "loop"})
       /\ missing ~> (boot.pc = "exited" /\ boot.code = 1)

\* C27 witness: the bot token alone is missing, main() has ended, no thread
\* was created
C27_Witness ==
    /\ boot.api_key /\ boot.api_secret /\ ~boot.bot_token
    /\ boot.pc = "exited"
    /\ boot.code = 1
    /\ \A s \in Services : Created(s) = {}

C29_DegradedIffAlert ==
    [][\A t \in Threads :
          (/\ thread["watchdog"][t] = "system"
           /\ thread'["watchdog"][t] = "trading"
           /\ system_status' # "ERROR")
          => /\ system_status' = "DEGRADED" <=> Len(alerts') > Len(alerts)
             /\ system_status' = "HEALTHY" <=> Len(alerts') = Len(alerts)]_vars

\* the resource check has run, the axis is DEGRADED and no alert exists
C29_Witness ==
    /\ \E t \in Threads : thread["watchdog"][t] = "trading"
    /\ system_status = "DEGRADED"
    /\ alerts = <<>>

\* C30: a tick whose trading check raises a TRADING alert (daily P&L below
\* the max-loss threshold, or risk utilization above its ceiling) leaves
\* the trading axis DEGRADED or ERROR, so that the overall status is not
\* HEALTHY
C30_BreachDegradesTrading ==
    [][\A t \in Threads :
          (/\ thread["watchdog"][t] = "trading"
           /\ thread'["watchdog"][t] = "api"
           /\ Len(alerts') > Len(alerts))
          => /\ trading_status' \in {"DEGRADED", "ERROR"}
             /\ OverallStatus(system_status', api_status', trading_status')
                   # "HEALTHY"]_vars

\* the trading check has raised a TRADING alert on a realized loss beyond
\* the threshold and the trading axis reads IDLE
C30_Witness ==
    /\ \E t \in Threads : thread["watchdog"][t] = "api"
    /\ daily_pnl < MaxLossThreshold
    /\ alerts # <<>>
    /\ alerts[Len(alerts)].type = "TRADING"
    /\ trading_status = "IDLE"

(***************************************************************************)
(* Claims about the daily realized P&L and the ledger's open set           *)
(***************************************************************************)
\* C26: the daily realized P&L is written only by close, which adds the
\* P&L it returns, and by the reset, which sets it to 0: whenever no close
\* is under way it is the sum of the P&Ls returned by the closes completed
\* since the last reset
C26_DailyPnlIsSumOfCloses ==
    AllIdle =>
       daily_pnl = (IF Len(closed) >= 1 THEN closed[1].pnl ELSE 0)
                      + (IF Len(closed) >= 2 THEN closed[2].pnl ELSE 0)

\* two threads closed two different positions, each call returned 5000, and
\* the daily realized P&L holds 5000
C26_Witness ==
    /\ AllIdle
    /\ Len(closed) = 2
    /\ closed[1].t # closed[2].t
    /\ closed[1].id # closed[2].id
    /\ closed[1].found /\ closed[2].found
    /\ closed[1].pnl = 5000 /\ closed[2].pnl = 5000
    /\ daily_pnl = 5000

\* C28: a decision cycle whose submission succeeded (ok or queued) adds
\* exactly one position to the ledger's open set when it registers the
\* entry, and a cycle whose submission the broker rejected adds none
C28_EntryRegistersPosition ==
    [][\A c \in Cycles :
          /\ (/\ cyc[c].pc = "register"
              /\ cyc'[c].reason = "entered"
              /\ cyc'[c].res \in {"ok", "queued"})
                => /\ Cardinality(DOMAIN open_positions')
                         = Cardinality(DOMAIN open_positions) + 1
                   /\ DOMAIN open_positions \subseteq DOMAIN open_positions'
          /\ (cyc[c].pc = "place" /\ cyc'[c].reason = "raised")
                => open_positions' = open_positions]_vars

\* a cycle has placed its order with the broker and registered the entry,
\* and the ledger's open set is empty
C28_Witness ==
    /\ cyc[1].pc = "idle"
    /\ cyc[1].reason = "entered"
    /\ cyc[1].res = "ok"
    /\ trade_count["NIFTY"] = 1
    /\ open_positions = <<>>

(***************************************************************************)
(* Claims about the alert history, mark-to-market and the risk check       *)
(***************************************************************************)
\* C31: the alert history is bounded: however many ticks raise alerts, the
\* list stays short of the length at which the model stops following it
\* (_send_alert itself would have to keep it there: the model's bound is no
\* part of the program)
C31_AlertHistoryBounded ==
    Len(alerts) < MaxAlerts

\* the resource checks of the watchdog's ticks have filled the history with
\* SYSTEM alerts up to the length the model follows, nothing having removed
\* one
C31_Witness ==
    /\ Len(alerts) = MaxAlerts
    /\ \A i \in 1..Len(alerts) : alerts[i].type = "SYSTEM"
    /\ system_status = "DEGRADED"

\* C35: check_risk_limits returns False whenever the available margin is
\* below the position value, whenever the margin query fails and whenever
\* the session is not authenticated; it returns True only if the position
\* value is within the maximum position size, the daily realized P&L is not
\* below minus the maximum daily loss and the available margin covers the
\* position value
C35_RiskCheckFailsClosed ==
    calc.op = "risk" =>
       LET value == calc.quantity * calc.price
       IN /\ calc.available < value => ~calc.ret
          /\ calc.margins # "success" => ~calc.ret
          /\ ~calc.auth => ~calc.ret
          /\ calc.ret => /\ value <= 100000
                         /\ calc.daily_pnl >= 0 - 5000
                         /\ calc.available >= value

\* a check refused because the margin query raised although the position
\* value, the daily P&L (exactly at the loss limit) and the balance would
\* have allowed the trade
C35_Witness ==
    /\ calc.op = "risk"
    /\ calc.quantity = 1
    /\ calc.daily_pnl = 0 - 5000
    /\ calc.auth
    /\ calc.margins = "raise"
    /\ calc.available = 18500
    /\ ~calc.ret

\* C36: every successful add_position increases the number of open
\* positions by one and leaves every position that was open as it was, two
\* registrations of the same symbol within one second included
C36_RegisterNeverOverwrites ==
    [][nAdds' = nAdds + 1 =>
          /\ Cardinality(DOMAIN open_positions')
                = Cardinality(DOMAIN open_positions) + 1
          /\ \A id \in DOMAIN open_positions :
                /\ id \in DOMAIN open_positions'
                /\ open_positions'[id] = open_positions[id]]_vars

\* two positions were registered within the same second, none was closed,
\* and one position is open: the second registration
C36_Witness ==
    /\ nAdds = 2
    /\ nCloses = 0
    /\ now = 0
    /\ Cardinality(DOMAIN open_positions) = 1
    /\ \A id \in DOMAIN open_positions : open_positions[id].serial = 2

(***************************************************************************)
(* Claims about the counters, the order-flow gate and the monitors         *)
(***************************************************************************)
\* C33: a decision cycle whose submission returned ok or queued increments
\* the instrument's trade count by one and the global exposure by the
\* cycle's exposure, once, when it registers the entry; the submission
\* itself, a cycle whose placement raises and a cycle stopped at a gate
\* leave both counters as they are
C33_CountersOncePerEntry ==
    [][\A c \in Cycles :
          /\ (cyc[c].pc = "register" /\ cyc'[c] # cyc[c]) =>
                /\ cyc[c].res \in {"ok", "queued"}
                /\ cyc'[c].pc = "idle"
                /\ trade_count' = [trade_count EXCEPT ![cyc[c].symbol] = @ + 1]
                /\ global_exposure' = global_exposure + cyc[c].exposure
          /\ (cyc[c].pc # "register" /\ cyc'[c] # cyc[c]) =>
                /\ trade_count' = trade_count
                /\ global_exposure' = global_exposure
          /\ (cyc[c].pc = "place" /\ cyc'[c].pc = "idle") =>
                cyc'[c].reason = "raised"]_vars

\* a cycle whose order was queued has registered its entry once, then a
\* cycle's placement raised: the counters hold the one entry
C33_Witness ==
    /\ cyc[1].pc = "idle"
    /\ cyc[1].reason = "raised"
    /\ Len(queue) = 1
    /\ trade_count[queue[1].symbol[1]] = 1
    /\ global_exposure = EstPremium * queue[1].quantity

\* C34: the order-flow gate fails closed: with a failed fetch or a zero
\* snapshot (no at-the-money strike, no open interest on one side or on
\* both), or when a computation in the gate raises, the gate does not
\* confirm, and the cycle that called it ends without submitting an order
C34_OrderFlowFailsClosed ==
    /\ [](LET empty == /\ calc.op = "oi_gate"
                       /\ \/ calc.raised
                          \/ calc.snap.atm = 0
                          \/ calc.snap.ce0 + calc.snap.ce150 = 0
                          \/ calc.snap.pe0 + calc.snap.pe150 = 0
          IN empty => ~calc.ret)
    /\ [][LET empty == /\ calc.op = "oi_gate"
                       /\ \/ calc.raised
                          \/ calc.snap.atm = 0
                          \/ calc.snap.ce0 + calc.snap.ce150 = 0
                          \/ calc.snap.pe0 + calc.snap.pe150 = 0
          IN \A c \in Cycles :
                (empty /\ cyc[c].pc = "idle" /\ cyc'[c] # cyc[c]) =>
                   /\ cyc'[c].pc = "idle"
                   /\ cyc'[c].reason # "pass"]_vars

\* the snapshot has open interest on the CE side and none on the PE side,
\* the gate confirmed, and the cycle passed every gate and is about to
\* submit its order
C34_Witness ==
    /\ calc.op = "oi_gate"
    /\ ~calc.raised
    /\ calc.snap.atm # 0
    /\ calc.snap.pe0 + calc.snap.pe150 = 0
    /\ calc.snap.ce0 > 0
    /\ calc.ret
    /\ cyc[1].pc = "place"
    /\ cyc[1].reason = "pass"

\* C37: a tick of the watchdog in which the market-data provider's status
\* request fails sets the api axis to ERROR, and the overall status of that
\* tick is ERROR
C37_NseDownIsError ==
    [][\A t \in Threads :
          (/\ thread["watchdog"][t] = "api"
           /\ thread'["watchdog"][t] = "sleep"
           /\ ~lastTick'.nse)
          => /\ api_status' = "ERROR"
             /\ OverallStatus(system_status', api_status', trading_status')
                   = "ERROR"]_vars

\* a completed tick whose market-data request failed, the broker session
\* not authenticated: the api axis reads CONNECTED and the overall status
\* HEALTHY
C37_Witness ==
    /\ \E t \in Threads : thread["watchdog"][t] = "sleep"
    /\ ~lastTick.nse
    /\ lastTick.kite = "NOT_AUTHENTICATED"
    /\ api_status = "CONNECTED"
    /\ system_status = "HEALTHY"
    /\ trading_status = "IDLE"
    /\ OverallStatus(system_status, api_status, trading_status) = "HEALTHY"

\* C38: a tick of the watchdog invokes the queue flush only when the broker
\* session is authenticated and the margins probe answered success, and a
\* tick whose flush failed still reads the broker status CONNECTED
C38_FlushOnlyWhenConnected ==
    [][\A t \in Threads :
          (/\ thread["watchdog"][t] = "api"
           /\ thread'["watchdog"][t] = "sleep")
          => /\ lastTick'.flushed =>
                   (lastTick'.auth /\ lastTick'.margins = "success")
             /\ lastTick'.failed =>
                   (lastTick'.flushed /\ lastTick'.kite = "CONNECTED")]_vars

\* a completed tick whose flush was invoked and failed: the broker status
\* and the api axis read CONNECTED
C38_Witness ==
    /\ \E t \in Threads : thread["watchdog"][t] = "sleep"
    /\ lastTick.auth
    /\ lastTick.margins = "success"
    /\ lastTick.flushed
    /\ lastTick.failed
    /\ lastTick.kite = "CONNECTED"
    /\ api_status = "CONNECTED"

\* C39: no token check of the refresher, a pass of its loop or force_check,
\* ever reaches the notification of the registered callbacks, and a check
\* that found the session invalid never reports a refresh
C39_CallbacksNeverInvoked ==
    /\ ~mon.notified
    /\ mon.by \in {"loop", "force"} /\ ~mon.valid => ~mon.ret

\* a pass of the loop whose validity request failed while the session is
\* authenticated: refresh_token went past its first return, and no callback
\* was notified
C39_Witness ==
    /\ mon.by = "loop"
    /\ ~mon.valid
    /\ access_token # 0
    /\ session_valid
    /\ mon.log = "manual"
    /\ ~mon.notified

\* C32: a mark-to-market pass whose price fetches all returned does not
\* fail part-way when a close or a register runs during it, and the map it
\* returns has entries only for positions that are open when it returns
C32_MarkToMarketAtomic ==
    [][(/\ calc.op = "mtm"
        /\ calc.pc = "next"
        /\ calc'.pc = "done"
        /\ calc'.fault # "fetch")
       => /\ calc'.fault = "none"
          /\ DOMAIN calc'.ret \subseteq DOMAIN open_positions']_vars

\* a pass that wrote the P&L of its first position, whose second position
\* was closed during the fetch, and that ended in the except: it returned
\* the empty map
C32_Witness ==
    /\ calc.op = "mtm"
    /\ calc.pc = "done"
    /\ calc.fault = "iter"
    /\ calc.used = 2
    /\ calc.n = 1
    /\ DOMAIN calc.pnls # {}
    /\ DOMAIN calc.ret = {}
    /\ \E id \in DOMAIN open_positions :
          /\ id \in DOMAIN calc.pnls
          /\ open_positions[id].unrealized_pnl = calc.pnls[id]
          /\ open_positions[id].unrealized_pnl # 0

=============================================================================
